---- MODULE Spec2Model ----
(***************************************************************************)
(* Run-state machine, request flags and main loop of vl.c.                 *)
(*                                                                         *)
(* The main thread is modelled statement by statement through `pc'; the    *)
(* request functions (qemu_system_*_request) are steps of other threads or *)
(* signal handlers and may interleave with any step of the main thread.    *)
(* Variables whose name starts with `h_' are history variables: they       *)
(* record what the program did and are never read by it.                   *)
(***************************************************************************)
EXTENDS Integers, Sequences, FiniteSets, TLC

(***************************************************************************)
(* Bounds of the model.                                                    *)
(***************************************************************************)
\* calls made to the program in one behaviour: request functions called by
\* other threads, and vm_stop()/vm_start() dispatched by main_loop_wait()
MaxOps == 2
\* passes of the do/while loop of main_loop() in one behaviour
MaxPasses == 2
\* largest CPU count ranchu_init() is called with on its own
MaxCpus == 3
\* vm-state-change handlers registered in one behaviour
MaxHandlers == 3

(***************************************************************************)
(* RunState (QAPI enum); RUN_STATE_MAX is the value one past the last.     *)
(***************************************************************************)
RUN_STATE_DEBUG == "debug"
RUN_STATE_INMIGRATE == "inmigrate"
RUN_STATE_INTERNAL_ERROR == "internal-error"
RUN_STATE_IO_ERROR == "io-error"
RUN_STATE_PAUSED == "paused"
RUN_STATE_POSTMIGRATE == "postmigrate"
RUN_STATE_PRELAUNCH == "prelaunch"
RUN_STATE_FINISH_MIGRATE == "finish-migrate"
RUN_STATE_RESTORE_VM == "restore-vm"
RUN_STATE_RUNNING == "running"
RUN_STATE_SAVE_VM == "save-vm"
RUN_STATE_SHUTDOWN == "shutdown"
RUN_STATE_SUSPENDED == "suspended"
RUN_STATE_WATCHDOG == "watchdog"
RUN_STATE_GUEST_PANICKED == "guest-panicked"
RUN_STATE_MAX == "MAX"

RunState ==
    { RUN_STATE_DEBUG, RUN_STATE_INMIGRATE, RUN_STATE_INTERNAL_ERROR,
      RUN_STATE_IO_ERROR, RUN_STATE_PAUSED, RUN_STATE_POSTMIGRATE,
      RUN_STATE_PRELAUNCH, RUN_STATE_FINISH_MIGRATE, RUN_STATE_RESTORE_VM,
      RUN_STATE_RUNNING, RUN_STATE_SAVE_VM, RUN_STATE_SHUTDOWN,
      RUN_STATE_SUSPENDED, RUN_STATE_WATCHDOG, RUN_STATE_GUEST_PANICKED }

RunStateOrMax == RunState \cup { RUN_STATE_MAX }

(***************************************************************************)
(* runstate_transitions_def[], in source order, sentinel included.         *)
(***************************************************************************)
runstate_transitions_def ==
    << << RUN_STATE_DEBUG, RUN_STATE_RUNNING >>,
       << RUN_STATE_DEBUG, RUN_STATE_FINISH_MIGRATE >>,
       << RUN_STATE_INMIGRATE, RUN_STATE_RUNNING >>,
       << RUN_STATE_INMIGRATE, RUN_STATE_PAUSED >>,
       << RUN_STATE_INTERNAL_ERROR, RUN_STATE_PAUSED >>,
       << RUN_STATE_INTERNAL_ERROR, RUN_STATE_FINISH_MIGRATE >>,
       << RUN_STATE_IO_ERROR, RUN_STATE_RUNNING >>,
       << RUN_STATE_IO_ERROR, RUN_STATE_FINISH_MIGRATE >>,
       << RUN_STATE_PAUSED, RUN_STATE_RUNNING >>,
       << RUN_STATE_PAUSED, RUN_STATE_FINISH_MIGRATE >>,
       << RUN_STATE_POSTMIGRATE, RUN_STATE_RUNNING >>,
       << RUN_STATE_POSTMIGRATE, RUN_STATE_FINISH_MIGRATE >>,
       << RUN_STATE_PRELAUNCH, RUN_STATE_RUNNING >>,
       << RUN_STATE_PRELAUNCH, RUN_STATE_FINISH_MIGRATE >>,
       << RUN_STATE_PRELAUNCH, RUN_STATE_INMIGRATE >>,
       << RUN_STATE_FINISH_MIGRATE, RUN_STATE_RUNNING >>,
       << RUN_STATE_FINISH_MIGRATE, RUN_STATE_POSTMIGRATE >>,
       << RUN_STATE_RESTORE_VM, RUN_STATE_RUNNING >>,
       << RUN_STATE_RUNNING, RUN_STATE_DEBUG >>,
       << RUN_STATE_RUNNING, RUN_STATE_INTERNAL_ERROR >>,
       << RUN_STATE_RUNNING, RUN_STATE_IO_ERROR >>,
       << RUN_STATE_RUNNING, RUN_STATE_PAUSED >>,
       << RUN_STATE_RUNNING, RUN_STATE_FINISH_MIGRATE >>,
       << RUN_STATE_RUNNING, RUN_STATE_RESTORE_VM >>,
       << RUN_STATE_RUNNING, RUN_STATE_SAVE_VM >>,
       << RUN_STATE_RUNNING, RUN_STATE_SHUTDOWN >>,
       << RUN_STATE_RUNNING, RUN_STATE_WATCHDOG >>,
       << RUN_STATE_RUNNING, RUN_STATE_GUEST_PANICKED >>,
       << RUN_STATE_SAVE_VM, RUN_STATE_RUNNING >>,
       << RUN_STATE_SHUTDOWN, RUN_STATE_PAUSED >>,
       << RUN_STATE_SHUTDOWN, RUN_STATE_FINISH_MIGRATE >>,
       << RUN_STATE_DEBUG, RUN_STATE_SUSPENDED >>,
       << RUN_STATE_RUNNING, RUN_STATE_SUSPENDED >>,
       << RUN_STATE_SUSPENDED, RUN_STATE_RUNNING >>,
       << RUN_STATE_SUSPENDED, RUN_STATE_FINISH_MIGRATE >>,
       << RUN_STATE_WATCHDOG, RUN_STATE_RUNNING >>,
       << RUN_STATE_WATCHDOG, RUN_STATE_FINISH_MIGRATE >>,
       << RUN_STATE_GUEST_PANICKED, RUN_STATE_RUNNING >>,
       << RUN_STATE_GUEST_PANICKED, RUN_STATE_FINISH_MIGRATE >>,
       << RUN_STATE_MAX, RUN_STATE_MAX >> >>

(***************************************************************************)
(* WakeupReason (enum) and the request flags drained by the main loop, in  *)
(* the order in which main_loop_should_exit() tests them.                  *)
(***************************************************************************)
QEMU_WAKEUP_REASON_NONE == "none"
QEMU_WAKEUP_REASON_RTC == "rtc"
QEMU_WAKEUP_REASON_OTHER == "other"
WakeupReason ==
    { QEMU_WAKEUP_REASON_NONE, QEMU_WAKEUP_REASON_RTC, QEMU_WAKEUP_REASON_OTHER }

(***************************************************************************)
(* The flags in the order in which main_loop_should_exit() tests them, and *)
(* the target states with which vm_stop()/qemu_system_vmstop_request() are *)
(* called in the model (each has a transition from RUN_STATE_RUNNING).     *)
(***************************************************************************)
FlagOrder ==
    << "debug", "suspend", "shutdown", "reset", "wakeup", "powerdown",
       "vmstop" >>

FlagNames == { FlagOrder[i] : i \in DOMAIN FlagOrder }

Order(f) == CHOOSE i \in DOMAIN FlagOrder : FlagOrder[i] = f

VmStopTargets ==
    { RUN_STATE_PAUSED, RUN_STATE_INTERNAL_ERROR }

(***************************************************************************)
(* Numbers of the board.  A hwaddr or ram_addr_t is 64 bits wide and is    *)
(* written << g, b >> for g * 2^30 + b with 0 <= b < 2^30, so that sizes   *)
(* around the 30 GiB of the RAM slot are told apart to the byte.           *)
(***************************************************************************)
GiB == 1073741824

SizeGt(a, b) == a[1] > b[1] \/ (a[1] = b[1] /\ a[2] > b[2])

\* (ram_addr_t)DEFAULT_RAM_SIZE * 1024 * 1024
DEFAULT_RAM_SIZE == << 0, 128 * 1024 * 1024 >>

NUM_VIRTIO_TRANSPORTS == 32

NUM_IRQS == 128

MAX_ANDROID_EMULATORS == 64

MAX_CPUMASK_BITS == 255

\* memmap[] with the android pipe at 0xa002000, inside the transports
memmap_PipeInTransports ==
    [ RANCHU_FLASH |-> [ base |-> << 0, 0 >>, size |-> << 0, 134217728 >> ],
      RANCHU_CPUPERIPHS |->
          [ base |-> << 0, 134217728 >>, size |-> << 0, 131072 >> ],
      RANCHU_GIC_DIST |->
          [ base |-> << 0, 134217728 >>, size |-> << 0, 65536 >> ],
      RANCHU_GIC_CPU |->
          [ base |-> << 0, 134283264 >>, size |-> << 0, 65536 >> ],
      RANCHU_UART |-> [ base |-> << 0, 150994944 >>, size |-> << 0, 4096 >> ],
      RANCHU_GF_FB |-> [ base |-> << 0, 151060480 >>, size |-> << 0, 256 >> ],
      RANCHU_GF_BATTERY |->
          [ base |-> << 0, 151126016 >>, size |-> << 0, 4096 >> ],
      RANCHU_GF_AUDIO |->
          [ base |-> << 0, 151191552 >>, size |-> << 0, 256 >> ],
      RANCHU_GF_EVDEV |->
          [ base |-> << 0, 151257088 >>, size |-> << 0, 4096 >> ],
      RANCHU_MMIO |-> [ base |-> << 0, 167772160 >>, size |-> << 0, 512 >> ],
      RANCHU_ANDROID_PIPE |->
          [ base |-> << 0, 167780352 >>, size |-> << 0, 8192 >> ],
      RANCHU_MEM |-> [ base |-> << 1, 0 >>, size |-> << 30, 0 >> ] ]

\* memmap[]: base and size of every slot
memmap ==
    [ RANCHU_FLASH |-> [ base |-> << 0, 0 >>, size |-> << 0, 134217728 >> ],
      RANCHU_CPUPERIPHS |->
          [ base |-> << 0, 134217728 >>, size |-> << 0, 131072 >> ],
      RANCHU_GIC_DIST |->
          [ base |-> << 0, 134217728 >>, size |-> << 0, 65536 >> ],
      RANCHU_GIC_CPU |->
          [ base |-> << 0, 134283264 >>, size |-> << 0, 65536 >> ],
      RANCHU_UART |-> [ base |-> << 0, 150994944 >>, size |-> << 0, 4096 >> ],
      RANCHU_GF_FB |-> [ base |-> << 0, 151060480 >>, size |-> << 0, 256 >> ],
      RANCHU_GF_BATTERY |->
          [ base |-> << 0, 151126016 >>, size |-> << 0, 4096 >> ],
      RANCHU_GF_AUDIO |->
          [ base |-> << 0, 151191552 >>, size |-> << 0, 256 >> ],
      RANCHU_GF_EVDEV |->
          [ base |-> << 0, 151257088 >>, size |-> << 0, 4096 >> ],
      RANCHU_MMIO |-> [ base |-> << 0, 167772160 >>, size |-> << 0, 512 >> ],
      RANCHU_ANDROID_PIPE |->
          [ base |-> << 0, 167837696 >>, size |-> << 0, 8192 >> ],
      RANCHU_MEM |-> [ base |-> << 1, 0 >>, size |-> << 30, 0 >> ] ]

\* irqmap[] with the android pipe on the first line of the transports
irqmap_PipeInTransports ==
    [ RANCHU_FLASH |-> 0, RANCHU_MEM |-> 0, RANCHU_CPUPERIPHS |-> 0,
      RANCHU_GIC_DIST |-> 0, RANCHU_GIC_CPU |-> 0, RANCHU_UART |-> 1,
      RANCHU_GF_FB |-> 2, RANCHU_GF_BATTERY |-> 3, RANCHU_GF_AUDIO |-> 4,
      RANCHU_GF_EVDEV |-> 5, RANCHU_ANDROID_PIPE |-> 16, RANCHU_MMIO |-> 16 ]

\* irqmap[]: entries the initialiser does not name are 0
irqmap ==
    [ RANCHU_FLASH |-> 0, RANCHU_MEM |-> 0, RANCHU_CPUPERIPHS |-> 0,
      RANCHU_GIC_DIST |-> 0, RANCHU_GIC_CPU |-> 0, RANCHU_UART |-> 1,
      RANCHU_GF_FB |-> 2, RANCHU_GF_BATTERY |-> 3, RANCHU_GF_AUDIO |-> 4,
      RANCHU_GF_EVDEV |-> 5, RANCHU_ANDROID_PIPE |-> 6, RANCHU_MMIO |-> 16 ]

\* the CPU models cpu_class_by_name(TYPE_ARM_CPU, ...) finds, and the values
\* of machine->cpu_model the model runs with
KnownCpuModels == { "cortex-a57", "cortex-a53" }

CpuModels == { "NULL", "cortex-a57", "no-such-cpu" }

\* exit_status while the process has not exited
NoExit == -1

VARIABLES
    pc,                          \* position of the main thread
    sig_pc,                      \* position inside qemu_system_killed
    aborted,                     \* abort() was called: the process is gone
    current_run_state,
    runstate_valid_transitions,  \* [from][to] matrix of booleans
    vmstop_requested,
    vmstop_lock,                 \* "free" or "held"
    reset_requested,
    shutdown_requested,
    powerdown_requested,
    debug_requested,
    suspend_requested,
    wakeup_reason,
    wakeup_reason_mask,          \* the set of reasons whose bit is set
    no_shutdown,
    no_reboot,
    autostart,
    incoming,
    ret,                         \* `int r' of the drain helper being run
    r,                           \* `RunState r' of main_loop_should_exit
    nops,                        \* calls made to the program so far
    npass,                       \* passes of the loop started so far
    h_lastSet,                   \* the last runstate_set call and its outcome
    h_log,                       \* tests and handlers of the current pass
    h_start,                     \* what was pending when the pass started
    h_unobserved,                \* flags set since a drain last read them
    h_lateSet,                   \* flags that became set during this pass
    h_vmreqs,                    \* vmstop targets written since the last drain
    h_drained,                   \* value of h_vmreqs at the last drain
    h_shutdownRequested,         \* some function has set shutdown_requested
    vcpus_paused,                \* pause_all_vcpus() since the last resume
    h_unpaused,                  \* who changed the run state with vCPUs resumed
    h_events,                    \* events the last vm_start() sent, in order
    last_io,                     \* `int last_io' of main_loop
    nonblocking,                 \* `bool nonblocking' of main_loop
    accel,                       \* the accelerator that is enabled, or "tcg"
    vm_change_state_head,        \* the entries of the list, head first
    h_registered,                \* every entry ever added, in call order
    h_calls,                     \* the last vm_state_notify: list and calls
    smp_cpus,
    max_cpus,
    ram_size,                    \* machine->ram_size
    cpu_model,                   \* machine->cpu_model
    n,                           \* loop counter of ranchu_init
    phandle,                     \* last phandle handed out for the fdt
    board,                       \* what ranchu_init has built, in order
    exit_status                  \* status the process ended with, or NoExit

configVars ==
    << runstate_valid_transitions, wakeup_reason_mask, no_reboot, autostart,
       incoming >>

runVars == << current_run_state, aborted, h_lastSet >>

flagVars ==
    << reset_requested, shutdown_requested, powerdown_requested,
       debug_requested, suspend_requested, wakeup_reason >>

vmstopVars == << vmstop_requested, vmstop_lock >>

localVars == << ret, r >>

countVars == << nops, npass >>

histVars ==
    << h_log, h_start, h_unobserved, h_lateSet, h_vmreqs, h_drained,
       h_shutdownRequested >>

cpuVars == << vcpus_paused, h_unpaused, h_events >>

auxVars ==
    << last_io, nonblocking, accel, vm_change_state_head, h_registered,
       h_calls >>

optVars == << smp_cpus, max_cpus, ram_size, cpu_model >>

boardVars == << optVars, n, phandle, board, exit_status >>

vars ==
    << pc, sig_pc, no_shutdown, configVars, runVars, flagVars, vmstopVars,
       localVars, countVars, histVars, cpuVars, auxVars,
       boardVars >>

NoPass == [ rs |-> RUN_STATE_MAX, pending |-> {}, no_shutdown |-> 0 ]

NoCall == [ from |-> RUN_STATE_MAX, to |-> RUN_STATE_MAX, returned |-> FALSE ]

(***************************************************************************)
(* runstate_check(), runstate_is_running(), runstate_needs_reset()         *)
(***************************************************************************)
runstate_check(state) == current_run_state = state

runstate_is_running == runstate_check(RUN_STATE_RUNNING)

runstate_needs_reset ==
    runstate_check(RUN_STATE_INTERNAL_ERROR)
        \/ runstate_check(RUN_STATE_SHUTDOWN)

(***************************************************************************)
(* runstate_init(): memset the matrix to false, then walk the definition   *)
(* array from its first entry until the entry whose `from' is RUN_STATE_MAX*)
(***************************************************************************)
ZeroMatrix_Diagonal == [ f \in RunState |-> [ t \in RunState |-> f = t ] ]

ZeroMatrix == [ f \in RunState |-> [ t \in RunState |-> FALSE ] ]

\* the loop with the two indices of the matrix exchanged
RECURSIVE FillTransitions_Swapped(_, _)
FillTransitions_Swapped(m, p) ==
    IF runstate_transitions_def[p][1] = RUN_STATE_MAX
    THEN m
    ELSE FillTransitions_Swapped(
             [ m EXCEPT ![runstate_transitions_def[p][2]]
                            [runstate_transitions_def[p][1]] = TRUE ],
             p + 1)

RECURSIVE FillTransitions(_, _)
FillTransitions(m, p) ==
    IF runstate_transitions_def[p][1] = RUN_STATE_MAX
    THEN m
    ELSE FillTransitions(
             [ m EXCEPT ![runstate_transitions_def[p][1]]
                            [runstate_transitions_def[p][2]] = TRUE ],
             p + 1)

\* runstate_init() with the rows of RUN_STATE_SHUTDOWN left empty
runstate_init_ShutdownIsFinal ==
    /\ pc = "start"
    /\ ~aborted
    /\ runstate_valid_transitions' = [ FillTransitions(ZeroMatrix, 1)
               EXCEPT ![RUN_STATE_SHUTDOWN] = [ t \in RunState |-> FALSE ] ]
    /\ vmstop_lock' = "free"
    /\ pc' = "options"
    /\ UNCHANGED << cpuVars, auxVars >>
    /\ UNCHANGED boardVars
    /\ UNCHANGED << sig_pc, no_shutdown, wakeup_reason_mask, no_reboot,
                    autostart, incoming, runVars, flagVars, vmstop_requested,
                    localVars, countVars, histVars >>

runstate_init ==
    /\ pc = "start"
    /\ ~aborted
    /\ runstate_valid_transitions' = FillTransitions(ZeroMatrix, 1)
    /\ vmstop_lock' = "free"
    /\ pc' = "options"
    /\ UNCHANGED << cpuVars, auxVars >>
    /\ UNCHANGED boardVars
    /\ UNCHANGED << sig_pc, no_shutdown, wakeup_reason_mask, no_reboot,
                    autostart, incoming, runVars, flagVars, vmstop_requested,
                    localVars, countVars, histVars >>

(***************************************************************************)
(* runstate_set(new_state).  TransitionAllowed is the condition under      *)
(* which the call gets past the assert and the table test; RunstateSet is  *)
(* the effect of the call on current_run_state and on the process.         *)
(***************************************************************************)
\* runstate_set() without its table test
TransitionAllowed_NoTableTest(new_state) ==
    new_state # RUN_STATE_MAX

TransitionAllowed(new_state) ==
    /\ new_state # RUN_STATE_MAX
    /\ runstate_valid_transitions[current_run_state][new_state]

\* runstate_set() that validates but forgets the assignment
RunstateSet_NoAssign(new_state) ==
    /\ h_lastSet' = [ from |-> current_run_state, to |-> new_state,
                      returned |-> TransitionAllowed(new_state) ]
    /\ current_run_state' = current_run_state
    /\ aborted' = ~TransitionAllowed(new_state)

RunstateSet(new_state) ==
    /\ h_lastSet' = [ from |-> current_run_state, to |-> new_state,
                      returned |-> TransitionAllowed(new_state) ]
    /\ IF TransitionAllowed(new_state)
       THEN /\ current_run_state' = new_state
            /\ aborted' = FALSE
       ELSE /\ current_run_state' = current_run_state
            /\ aborted' = TRUE

\* runstate_set() called by code outside the main loop (migration, savevm,
\* watchdog, ...) once runstate_init() has run
CallRunstateSet(new_state) ==
    /\ pc \in { "options", "getopt" }
    /\ ~aborted
    /\ RunstateSet(new_state)
    /\ UNCHANGED << cpuVars, auxVars >>
    /\ UNCHANGED boardVars
    /\ UNCHANGED << pc, sig_pc, no_shutdown, configVars, flagVars,
                    vmstopVars, localVars, countVars, histVars >>

(***************************************************************************)
(* Helpers for writing the actions: the request flags and the history      *)
(* variables as records, so that an action names only what it changes.     *)
(***************************************************************************)
Flags ==
    [ reset |-> reset_requested, shutdown |-> shutdown_requested,
      powerdown |-> powerdown_requested, debug |-> debug_requested,
      suspend |-> suspend_requested, wakeup |-> wakeup_reason ]

SetFlags(new) ==
    /\ reset_requested' = new.reset
    /\ shutdown_requested' = new.shutdown
    /\ powerdown_requested' = new.powerdown
    /\ debug_requested' = new.debug
    /\ suspend_requested' = new.suspend
    /\ wakeup_reason' = new.wakeup

Hist ==
    [ log |-> h_log, start |-> h_start, unobserved |-> h_unobserved,
      lateSet |-> h_lateSet, vmreqs |-> h_vmreqs, drained |-> h_drained,
      shutdownRequested |-> h_shutdownRequested ]

SetHist(new) ==
    /\ h_log' = new.log
    /\ h_start' = new.start
    /\ h_unobserved' = new.unobserved
    /\ h_lateSet' = new.lateSet
    /\ h_vmreqs' = new.vmreqs
    /\ h_drained' = new.drained
    /\ h_shutdownRequested' = new.shutdownRequested

\* the flag whose test or handler the main thread is executing at p
Phase(p) ==
    CASE p \in { "debug_read", "debug_clear", "debug_act" } -> "debug"
      [] p \in { "suspend_read", "suspend_clear", "suspend_act" } -> "suspend"
      [] p \in { "shutdown_xchg", "shutdown_act" } -> "shutdown"
      [] p \in { "reset_read", "reset_clear", "reset_act" } -> "reset"
      [] p \in { "wakeup_test", "wakeup_notify", "wakeup_clear" } -> "wakeup"
      [] p \in { "powerdown_read", "powerdown_clear", "powerdown_act" }
             -> "powerdown"
      [] p \in { "vmstop_drain", "vmstop_act" } -> "vmstop"
      [] OTHER -> "none"

\* the flag whose handler the main thread is executing at p
Handling(p) ==
    IF p \in { "debug_act", "suspend_act", "shutdown_act", "reset_act",
               "wakeup_notify", "wakeup_clear", "powerdown_act",
               "vmstop_act" }
    THEN Phase(p)
    ELSE "none"

\* the request f is pending: its flag holds a value other than `none'
Pending(f) ==
    CASE f = "debug" -> debug_requested # 0
      [] f = "suspend" -> suspend_requested # 0
      [] f = "shutdown" -> shutdown_requested # 0
      [] f = "reset" -> reset_requested # 0
      [] f = "wakeup" -> wakeup_reason # QEMU_WAKEUP_REASON_NONE
      [] f = "powerdown" -> powerdown_requested # 0
      [] f = "vmstop" -> vmstop_requested # RUN_STATE_MAX

\* one entry of h_log: the test of flag f, or its handler with the run state
\* the handler left behind and the argument it worked with
LogTest(f) == [ k |-> "test", f |-> f, rs |-> "-", arg |-> "-" ]

LogAct(f, rs, arg) == [ k |-> "act", f |-> f, rs |-> rs, arg |-> arg ]

\* history of a request function writing flag f; h_lateSet gets the flags
\* that become set while the main thread runs the handler of another flag,
\* with whether the test of f lies before that flag in the order (so is
\* already done in this pass)
NoteSet(h, f) ==
    [ h EXCEPT
        !.unobserved = @ \cup { f },
        !.lateSet =
            IF Handling(pc) \notin { "none", f } /\ ~Pending(f)
            THEN @ \cup { [ f |-> f,
                            tested |-> Order(f) < Order(Handling(pc)) ] }
            ELSE @,
        !.shutdownRequested = @ \/ f = "shutdown" ]

\* history of a drain helper reading flag f
NoteRead(h, f) ==
    [ h EXCEPT
        !.log = Append(@, LogTest(f)),
        !.unobserved = IF Pending(f) THEN @ \ { f } ELSE @ ]

\* h_unpaused after a runstate_set() made by `site' with the vCPUs paused
\* or not
UnpausedSet(site, paused) ==
    IF ~paused /\ current_run_state' # current_run_state
    THEN h_unpaused \cup { site }
    ELSE h_unpaused

(***************************************************************************)
(* vm_stop(state) on the main thread: do_vm_stop() changes the run state   *)
(* only when the machine is running.                                       *)
(***************************************************************************)
VmStop(state) ==
    IF runstate_is_running
    THEN /\ vcpus_paused' = TRUE
         /\ RunstateSet(state)
         /\ UNCHANGED h_unpaused
         /\ UNCHANGED << h_events, auxVars >>
    ELSE UNCHANGED << runVars, cpuVars, auxVars >>

\* vm_state_notify(running, state): QLIST_FOREACH_SAFE walks the list from
\* its head and calls e->cb(e->opaque, running, state) for each entry
vm_state_notify(running, state) ==
    h_calls' =
        [ list |-> vm_change_state_head,
          calls |-> [ i \in DOMAIN vm_change_state_head |->
                        [ e |-> vm_change_state_head[i],
                          running |-> running,
                          state |-> state ] ] ]

(***************************************************************************)
(* vm_start(): drains a pending vmstop request, returns at once when the   *)
(* machine is running and nothing was pending, and otherwise ends in       *)
(* RUN_STATE_RUNNING.                                                      *)
(***************************************************************************)
VmStart_SilentWhenRunning ==
    /\ vmstop_lock = "free"
    /\ vmstop_requested' = RUN_STATE_MAX
    /\ vmstop_lock' = vmstop_lock
    /\ IF runstate_is_running
       THEN /\ UNCHANGED << runVars, vcpus_paused, h_unpaused, auxVars >>
            /\ h_events' = << >>
       ELSE /\ RunstateSet(RUN_STATE_RUNNING)
            /\ h_unpaused' = UnpausedSet("vm_start", vcpus_paused)
            /\ vcpus_paused' = (aborted' /\ vcpus_paused)
            /\ h_events' = IF aborted' THEN << >> ELSE << "RESUME" >>
            /\ IF aborted'
               THEN UNCHANGED h_calls
               ELSE vm_state_notify(1, RUN_STATE_RUNNING)
            /\ UNCHANGED << last_io, nonblocking, accel, vm_change_state_head,
                            h_registered >>

\* a vm_start() that leaves a state which needs a reset through PAUSED
VmStart_ThroughPaused ==
    /\ vmstop_lock = "free"
    /\ vmstop_requested' = RUN_STATE_MAX
    /\ vmstop_lock' = vmstop_lock
    /\ IF runstate_is_running
       THEN /\ UNCHANGED << runVars, vcpus_paused, h_unpaused, auxVars >>
            /\ h_events' = IF vmstop_requested = RUN_STATE_MAX
                           THEN << >>
                           ELSE << "STOP", "RESUME" >>
       ELSE /\ IF runstate_needs_reset
               THEN RunstateSet(RUN_STATE_PAUSED)
               ELSE RunstateSet(RUN_STATE_RUNNING)
            /\ h_unpaused' = UnpausedSet("vm_start", vcpus_paused)
            /\ vcpus_paused' = (aborted' /\ vcpus_paused)
            /\ h_events' = IF aborted' THEN << >> ELSE << "RESUME" >>
            /\ IF aborted'
               THEN UNCHANGED h_calls
               ELSE vm_state_notify(1, RUN_STATE_RUNNING)
            /\ UNCHANGED << last_io, nonblocking, accel, vm_change_state_head,
                            h_registered >>

VmStart ==
    /\ vmstop_lock = "free"
    /\ vmstop_requested' = RUN_STATE_MAX
    /\ vmstop_lock' = vmstop_lock
    /\ IF runstate_is_running
       THEN /\ UNCHANGED << runVars, vcpus_paused, h_unpaused, auxVars >>
            /\ h_events' = IF vmstop_requested = RUN_STATE_MAX
                           THEN << >>
                           ELSE << "STOP", "RESUME" >>
       ELSE /\ RunstateSet(RUN_STATE_RUNNING)
            /\ h_unpaused' = UnpausedSet("vm_start", vcpus_paused)
            /\ vcpus_paused' = (aborted' /\ vcpus_paused)
            /\ h_events' = IF aborted' THEN << >> ELSE << "RESUME" >>
            /\ IF aborted'
               THEN UNCHANGED h_calls
               ELSE vm_state_notify(1, RUN_STATE_RUNNING)
            /\ UNCHANGED << last_io, nonblocking, accel, vm_change_state_head,
                            h_registered >>

(***************************************************************************)
(* main(): runstate_init(), defaults, option parsing, launch of the VM.    *)
(***************************************************************************)
MainDefaults ==
    /\ pc = "options"
    /\ ~aborted
    /\ autostart' = 1
    /\ pc' = "getopt"
    /\ UNCHANGED << cpuVars, auxVars >>
    /\ UNCHANGED boardVars
    /\ UNCHANGED << sig_pc, no_shutdown, runstate_valid_transitions,
                    wakeup_reason_mask, no_reboot, incoming, runVars,
                    flagVars, vmstopVars, localVars, countVars, histVars >>

\* -S
OptionS ==
    /\ pc = "getopt"
    /\ ~aborted
    /\ autostart' = 0
    /\ UNCHANGED << cpuVars, auxVars >>
    /\ UNCHANGED boardVars
    /\ UNCHANGED << pc, sig_pc, no_shutdown, runstate_valid_transitions,
                    wakeup_reason_mask, no_reboot, incoming, runVars,
                    flagVars, vmstopVars, localVars, countVars, histVars >>

\* -no-reboot
OptionNoReboot ==
    /\ pc = "getopt"
    /\ ~aborted
    /\ no_reboot' = 1
    /\ UNCHANGED << cpuVars, auxVars >>
    /\ UNCHANGED boardVars
    /\ UNCHANGED << pc, sig_pc, no_shutdown, runstate_valid_transitions,
                    wakeup_reason_mask, autostart, incoming, runVars,
                    flagVars, vmstopVars, localVars, countVars, histVars >>

\* -no-shutdown
OptionNoShutdown ==
    /\ pc = "getopt"
    /\ ~aborted
    /\ no_shutdown' = 1
    /\ UNCHANGED << cpuVars, auxVars >>
    /\ UNCHANGED boardVars
    /\ UNCHANGED << pc, sig_pc, configVars, runVars, flagVars, vmstopVars,
                    localVars, countVars, histVars >>

\* -incoming
OptionIncoming ==
    /\ pc = "getopt"
    /\ ~aborted
    /\ incoming' = TRUE
    /\ RunstateSet(RUN_STATE_INMIGRATE)
    /\ UNCHANGED << cpuVars, auxVars >>
    /\ UNCHANGED boardVars
    /\ UNCHANGED << pc, sig_pc, no_shutdown, runstate_valid_transitions,
                    wakeup_reason_mask, no_reboot, autostart, flagVars,
                    vmstopVars, localVars, countVars, histVars >>

\* `if (incoming) ... else if (autostart) vm_start()' of main(), reached
\* from position p
LaunchAt(p) ==
    /\ pc = p
    /\ ~aborted
    /\ IF ~incoming /\ autostart # 0
       THEN /\ VmStart
            /\ SetHist([ Hist EXCEPT !.vmreqs = << >>,
                                     !.unobserved = @ \ { "vmstop" } ])
       ELSE UNCHANGED << runVars, vmstopVars, histVars, cpuVars, auxVars >>
    /\ pc' = IF aborted' THEN pc ELSE "main_loop"
    /\ UNCHANGED boardVars
    /\ UNCHANGED << sig_pc, no_shutdown, configVars, flagVars, localVars,
                    countVars >>

\* the run-state machine and the main loop on their own: main() goes from
\* the end of the option loop to the launch, the machine left unbuilt
Launch == LaunchAt("getopt")

(***************************************************************************)
(* main_loop(): hax_sync_vcpus(), then the do/while loop.  `wait' is the   *)
(* main thread inside main_loop_wait(); the other positions are the        *)
(* statements of main_loop_should_exit() and of the drain helpers it calls.*)
(***************************************************************************)
MainLoopEnter ==
    /\ pc = "main_loop"
    /\ ~aborted
    /\ \E hax_ok \in BOOLEAN :
           pc' = IF hax_ok THEN "wait" ELSE "hax_failed"
    /\ last_io' = 0
    /\ UNCHANGED << nonblocking, accel, vm_change_state_head, h_registered,
                    h_calls >>
    /\ UNCHANGED cpuVars
    /\ UNCHANGED boardVars
    /\ UNCHANGED << sig_pc, no_shutdown, configVars, runVars, flagVars,
                    vmstopVars, localVars, countVars, histVars >>

PendingSet == { f \in FlagNames : Pending(f) }

\* one turn of the do/while loop up to the call of main_loop_should_exit():
\* nonblocking is computed, main_loop_wait(nonblocking) returns io
MainLoopWait_AccelIgnored(io) ==
    /\ pc = "wait"
    /\ ~aborted
    /\ npass < MaxPasses
    /\ npass' = npass + 1
    /\ pc' = "debug_read"
    /\ nonblocking' = (last_io > 0)
    /\ last_io' = io
    /\ SetHist([ Hist EXCEPT
                   !.log = << >>,
                   !.lateSet = {},
                   !.start = [ rs |-> current_run_state,
                               pending |-> PendingSet,
                               no_shutdown |-> no_shutdown ] ])
    /\ UNCHANGED << accel, vm_change_state_head, h_registered, h_calls >>
    /\ UNCHANGED cpuVars
    /\ UNCHANGED boardVars
    /\ UNCHANGED << sig_pc, no_shutdown, configVars, runVars, flagVars,
                    vmstopVars, localVars, nops >>

MainLoopWait(io) ==
    /\ pc = "wait"
    /\ ~aborted
    /\ npass < MaxPasses
    /\ npass' = npass + 1
    /\ pc' = "debug_read"
    /\ SetHist([ Hist EXCEPT
                   !.log = << >>,
                   !.lateSet = {},
                   !.start = [ rs |-> current_run_state,
                               pending |-> PendingSet,
                               no_shutdown |-> no_shutdown ] ])
    /\ nonblocking' = (accel \notin { "kvm", "xen", "hax" } /\ last_io > 0)
    /\ last_io' = io
    /\ UNCHANGED << accel, vm_change_state_head, h_registered, h_calls >>
    /\ UNCHANGED cpuVars
    /\ UNCHANGED boardVars
    /\ UNCHANGED << sig_pc, no_shutdown, configVars, runVars, flagVars,
                    vmstopVars, localVars, nops >>

\* qemu_debug_requested(): int r = debug_requested;
DebugRead ==
    /\ pc = "debug_read"
    /\ ~aborted
    /\ ret' = debug_requested
    /\ pc' = "debug_clear"
    /\ SetHist(NoteRead(Hist, "debug"))
    /\ UNCHANGED << cpuVars, auxVars >>
    /\ UNCHANGED boardVars
    /\ UNCHANGED << sig_pc, no_shutdown, configVars, runVars, flagVars,
                    vmstopVars, r, countVars >>

\* qemu_debug_requested(): debug_requested = 0; return r;
DebugClear ==
    /\ pc = "debug_clear"
    /\ ~aborted
    /\ SetFlags([ Flags EXCEPT !.debug = 0 ])
    /\ pc' = IF ret # 0 THEN "debug_act" ELSE "suspend_read"
    /\ ret' = 0
    /\ UNCHANGED << cpuVars, auxVars >>
    /\ UNCHANGED boardVars
    /\ UNCHANGED << sig_pc, no_shutdown, configVars, runVars, vmstopVars,
                    r, countVars, histVars >>

\* vm_stop(RUN_STATE_DEBUG)
DebugAct ==
    /\ pc = "debug_act"
    /\ ~aborted
    /\ VmStop(RUN_STATE_DEBUG)
    /\ SetHist([ Hist EXCEPT
                   !.log = Append(@, LogAct("debug", current_run_state',
                                           "-")) ])
    /\ pc' = IF aborted' THEN pc ELSE "suspend_read"
    /\ UNCHANGED boardVars
    /\ UNCHANGED << sig_pc, no_shutdown, configVars, flagVars, vmstopVars,
                    localVars, countVars >>

\* qemu_suspend_requested(): int r = suspend_requested;
SuspendRead ==
    /\ pc = "suspend_read"
    /\ ~aborted
    /\ ret' = suspend_requested
    /\ pc' = "suspend_clear"
    /\ SetHist(NoteRead(Hist, "suspend"))
    /\ UNCHANGED << cpuVars, auxVars >>
    /\ UNCHANGED boardVars
    /\ UNCHANGED << sig_pc, no_shutdown, configVars, runVars, flagVars,
                    vmstopVars, r, countVars >>

\* the shutdown test placed under the suspend test
SuspendClear_SkipsShutdown ==
    /\ pc = "suspend_clear"
    /\ ~aborted
    /\ SetFlags([ Flags EXCEPT !.suspend = 0 ])
    /\ pc' = IF ret # 0 THEN "suspend_act" ELSE "reset_read"
    /\ ret' = 0
    /\ UNCHANGED << cpuVars, auxVars >>
    /\ UNCHANGED boardVars
    /\ UNCHANGED << sig_pc, no_shutdown, configVars, runVars, vmstopVars,
                    r, countVars, histVars >>

\* qemu_suspend_requested(): suspend_requested = 0; return r;
SuspendClear ==
    /\ pc = "suspend_clear"
    /\ ~aborted
    /\ SetFlags([ Flags EXCEPT !.suspend = 0 ])
    /\ pc' = IF ret # 0 THEN "suspend_act" ELSE "shutdown_xchg"
    /\ ret' = 0
    /\ UNCHANGED << cpuVars, auxVars >>
    /\ UNCHANGED boardVars
    /\ UNCHANGED << sig_pc, no_shutdown, configVars, runVars, vmstopVars,
                    r, countVars, histVars >>

\* qemu_system_suspend() without its runstate_set()
SuspendAct_NoRunstateSet ==
    /\ pc = "suspend_act"
    /\ ~aborted
    /\ UNCHANGED runVars
    /\ SetHist([ Hist EXCEPT
                   !.log = Append(@, LogAct("suspend", current_run_state,
                                           "-")) ])
    /\ pc' = "shutdown_xchg"
    /\ UNCHANGED << cpuVars, auxVars >>
    /\ UNCHANGED boardVars
    /\ UNCHANGED << sig_pc, no_shutdown, configVars, flagVars, vmstopVars,
                    localVars, countVars >>

\* qemu_system_suspend(): pause the vCPUs, fire the suspend notifiers,
\* runstate_set(RUN_STATE_SUSPENDED), send the SUSPEND event
SuspendAct ==
    /\ pc = "suspend_act"
    /\ ~aborted
    /\ RunstateSet(RUN_STATE_SUSPENDED)
    /\ SetHist([ Hist EXCEPT
                   !.log = Append(@, LogAct("suspend", current_run_state',
                                           "-")) ])
    /\ pc' = IF aborted' THEN pc ELSE "shutdown_xchg"
    /\ vcpus_paused' = TRUE
    /\ UNCHANGED h_unpaused
    /\ UNCHANGED << h_events, auxVars >>
    /\ UNCHANGED boardVars
    /\ UNCHANGED << sig_pc, no_shutdown, configVars, flagVars, vmstopVars,
                    localVars, countVars >>

\* qemu_shutdown_requested(): atomic_xchg(&shutdown_requested, 0)
ShutdownXchg ==
    /\ pc = "shutdown_xchg"
    /\ ~aborted
    /\ SetFlags([ Flags EXCEPT !.shutdown = 0 ])
    /\ pc' = IF shutdown_requested # 0 THEN "shutdown_act" ELSE "reset_read"
    /\ SetHist(NoteRead(Hist, "shutdown"))
    /\ UNCHANGED << cpuVars, auxVars >>
    /\ UNCHANGED boardVars
    /\ UNCHANGED << sig_pc, no_shutdown, configVars, runVars, vmstopVars,
                    localVars, countVars >>

\* the shutdown handler without the no_shutdown test
ShutdownAct_IgnoresNoShutdown ==
    /\ pc = "shutdown_act"
    /\ ~aborted
    /\ UNCHANGED runVars
    /\ pc' = "exited"
    /\ SetHist([ Hist EXCEPT
                   !.log = Append(@, LogAct("shutdown", current_run_state,
                                  IF no_shutdown # 0 THEN "stop"
                                                     ELSE "exit")) ])
    /\ UNCHANGED << cpuVars, auxVars >>
    /\ UNCHANGED boardVars
    /\ UNCHANGED << sig_pc, no_shutdown, configVars, flagVars, vmstopVars,
                    localVars, countVars >>

\* qemu_kill_report(), the SHUTDOWN event, then vm_stop(RUN_STATE_SHUTDOWN)
\* when no_shutdown is set and `return true' when it is not
ShutdownAct ==
    /\ pc = "shutdown_act"
    /\ ~aborted
    /\ IF no_shutdown # 0
       THEN /\ VmStop(RUN_STATE_SHUTDOWN)
            /\ pc' = IF aborted' THEN pc ELSE "reset_read"
       ELSE /\ UNCHANGED << runVars, cpuVars, auxVars >>
            /\ pc' = "exited"
    /\ SetHist([ Hist EXCEPT
                   !.log = Append(@, LogAct("shutdown", current_run_state',
                                  IF no_shutdown # 0 THEN "stop"
                                                     ELSE "exit")) ])
    /\ UNCHANGED boardVars
    /\ UNCHANGED << sig_pc, no_shutdown, configVars, flagVars, vmstopVars,
                    localVars, countVars >>

\* qemu_reset_requested(): int r = reset_requested;
ResetRead ==
    /\ pc = "reset_read"
    /\ ~aborted
    /\ ret' = reset_requested
    /\ pc' = "reset_clear"
    /\ SetHist(NoteRead(Hist, "reset"))
    /\ UNCHANGED << cpuVars, auxVars >>
    /\ UNCHANGED boardVars
    /\ UNCHANGED << sig_pc, no_shutdown, configVars, runVars, flagVars,
                    vmstopVars, r, countVars >>

\* qemu_reset_requested(): reset_requested = 0; return r;
ResetClear ==
    /\ pc = "reset_clear"
    /\ ~aborted
    /\ SetFlags([ Flags EXCEPT !.reset = 0 ])
    /\ pc' = IF ret # 0 THEN "reset_act" ELSE "wakeup_test"
    /\ ret' = 0
    /\ UNCHANGED << cpuVars, auxVars >>
    /\ UNCHANGED boardVars
    /\ UNCHANGED << sig_pc, no_shutdown, configVars, runVars, vmstopVars,
                    r, countVars, histVars >>

ResetAct_NeverPaused ==
    /\ pc = "reset_act"
    /\ ~aborted
    /\ IF FALSE
       THEN RunstateSet(RUN_STATE_PAUSED)
       ELSE UNCHANGED runVars
    /\ SetHist([ Hist EXCEPT
                   !.log = Append(@, LogAct("reset", current_run_state',
                                           "-")) ])
    /\ pc' = IF aborted' THEN pc ELSE "wakeup_test"
    /\ vcpus_paused' = FALSE
    /\ h_unpaused' = UnpausedSet("reset", FALSE)
    /\ UNCHANGED << h_events, auxVars >>
    /\ UNCHANGED boardVars
    /\ UNCHANGED << sig_pc, no_shutdown, configVars, flagVars, vmstopVars,
                    localVars, countVars >>

\* pause the vCPUs, qemu_system_reset(VMRESET_REPORT), resume them, and
\* runstate_set(RUN_STATE_PAUSED) if runstate_needs_reset()
ResetAct ==
    /\ pc = "reset_act"
    /\ ~aborted
    /\ IF runstate_needs_reset
       THEN RunstateSet(RUN_STATE_PAUSED)
       ELSE UNCHANGED runVars
    /\ SetHist([ Hist EXCEPT
                   !.log = Append(@, LogAct("reset", current_run_state',
                                           "-")) ])
    /\ pc' = IF aborted' THEN pc ELSE "wakeup_test"
    /\ vcpus_paused' = FALSE
    /\ h_unpaused' = UnpausedSet("reset", FALSE)
    /\ UNCHANGED << h_events, auxVars >>
    /\ UNCHANGED boardVars
    /\ UNCHANGED << sig_pc, no_shutdown, configVars, flagVars, vmstopVars,
                    localVars, countVars >>

\* if (qemu_wakeup_requested())
WakeupTest ==
    /\ pc = "wakeup_test"
    /\ ~aborted
    /\ pc' = IF wakeup_reason # QEMU_WAKEUP_REASON_NONE
             THEN "wakeup_notify" ELSE "powerdown_read"
    /\ SetHist(NoteRead(Hist, "wakeup"))
    /\ UNCHANGED << cpuVars, auxVars >>
    /\ UNCHANGED boardVars
    /\ UNCHANGED << sig_pc, no_shutdown, configVars, runVars, flagVars,
                    vmstopVars, localVars, countVars >>

\* pause the vCPUs, qemu_system_reset(VMRESET_SILENT), and
\* notifier_list_notify(&wakeup_notifiers, &wakeup_reason)
WakeupNotify ==
    /\ pc = "wakeup_notify"
    /\ ~aborted
    /\ pc' = "wakeup_clear"
    /\ SetHist([ Hist EXCEPT
                   !.log = Append(@, LogAct("wakeup", current_run_state,
                                           wakeup_reason)) ])
    /\ vcpus_paused' = TRUE
    /\ UNCHANGED h_unpaused
    /\ UNCHANGED << h_events, auxVars >>
    /\ UNCHANGED boardVars
    /\ UNCHANGED << sig_pc, no_shutdown, configVars, runVars, flagVars,
                    vmstopVars, localVars, countVars >>

\* wakeup_reason = QEMU_WAKEUP_REASON_NONE, resume the vCPUs, WAKEUP event
WakeupClear ==
    /\ pc = "wakeup_clear"
    /\ ~aborted
    /\ SetFlags([ Flags EXCEPT !.wakeup = QEMU_WAKEUP_REASON_NONE ])
    /\ pc' = "powerdown_read"
    /\ vcpus_paused' = FALSE
    /\ UNCHANGED h_unpaused
    /\ UNCHANGED << h_events, auxVars >>
    /\ UNCHANGED boardVars
    /\ UNCHANGED << sig_pc, no_shutdown, configVars, runVars, vmstopVars,
                    localVars, countVars, histVars >>

\* qemu_powerdown_requested(): int r = powerdown_requested;
PowerdownRead ==
    /\ pc = "powerdown_read"
    /\ ~aborted
    /\ ret' = powerdown_requested
    /\ pc' = "powerdown_clear"
    /\ SetHist(NoteRead(Hist, "powerdown"))
    /\ UNCHANGED << cpuVars, auxVars >>
    /\ UNCHANGED boardVars
    /\ UNCHANGED << sig_pc, no_shutdown, configVars, runVars, flagVars,
                    vmstopVars, r, countVars >>

\* the drained value of powerdown_requested is not acted on
PowerdownClear_NoHandler ==
    /\ pc = "powerdown_clear"
    /\ ~aborted
    /\ SetFlags([ Flags EXCEPT !.powerdown = 0 ])
    /\ pc' = "vmstop_drain"
    /\ ret' = 0
    /\ UNCHANGED << cpuVars, auxVars >>
    /\ UNCHANGED boardVars
    /\ UNCHANGED << sig_pc, no_shutdown, configVars, runVars, vmstopVars,
                    r, countVars, histVars >>

\* qemu_powerdown_requested(): powerdown_requested = 0; return r;
PowerdownClear ==
    /\ pc = "powerdown_clear"
    /\ ~aborted
    /\ SetFlags([ Flags EXCEPT !.powerdown = 0 ])
    /\ pc' = IF ret # 0 THEN "powerdown_act" ELSE "vmstop_drain"
    /\ ret' = 0
    /\ UNCHANGED << cpuVars, auxVars >>
    /\ UNCHANGED boardVars
    /\ UNCHANGED << sig_pc, no_shutdown, configVars, runVars, vmstopVars,
                    r, countVars, histVars >>

\* qemu_system_powerdown(): POWERDOWN event and powerdown notifiers
PowerdownAct ==
    /\ pc = "powerdown_act"
    /\ ~aborted
    /\ UNCHANGED runVars
    /\ SetHist([ Hist EXCEPT
                   !.log = Append(@, LogAct("powerdown", current_run_state',
                                           "-")) ])
    /\ pc' = IF aborted' THEN pc ELSE "vmstop_drain"
    /\ UNCHANGED << cpuVars, auxVars >>
    /\ UNCHANGED boardVars
    /\ UNCHANGED << sig_pc, no_shutdown, configVars, flagVars, vmstopVars,
                    localVars, countVars >>

\* a drain that does not take vmstop_lock
VmstopDrain_NoLock ==
    /\ pc = "vmstop_drain"
    /\ ~aborted
    /\ r' = vmstop_requested
    /\ vmstop_requested' = RUN_STATE_MAX
    /\ vmstop_lock' = vmstop_lock
    /\ pc' = IF vmstop_requested # RUN_STATE_MAX THEN "vmstop_act" ELSE "wait"
    /\ SetHist([ NoteRead(Hist, "vmstop") EXCEPT
                   !.drained = h_vmreqs,
                   !.vmreqs = << >> ])
    /\ UNCHANGED << cpuVars, auxVars >>
    /\ UNCHANGED boardVars
    /\ UNCHANGED << sig_pc, no_shutdown, configVars, runVars, flagVars, ret,
                    countVars >>

\* qemu_vmstop_requested(&r): under vmstop_lock, *r = vmstop_requested and
\* vmstop_requested = RUN_STATE_MAX; the caller tests *r < RUN_STATE_MAX
VmstopDrain ==
    /\ pc = "vmstop_drain"
    /\ ~aborted
    /\ vmstop_lock = "free"
    /\ r' = vmstop_requested
    /\ vmstop_requested' = RUN_STATE_MAX
    /\ vmstop_lock' = "free"
    /\ pc' = IF vmstop_requested # RUN_STATE_MAX THEN "vmstop_act" ELSE "wait"
    /\ SetHist([ NoteRead(Hist, "vmstop") EXCEPT
                   !.drained = h_vmreqs,
                   !.vmreqs = << >> ])
    /\ UNCHANGED << cpuVars, auxVars >>
    /\ UNCHANGED boardVars
    /\ UNCHANGED << sig_pc, no_shutdown, configVars, runVars, flagVars, ret,
                    countVars >>

\* vm_stop(r); return false
VmstopAct ==
    /\ pc = "vmstop_act"
    /\ ~aborted
    /\ VmStop(r)
    /\ SetHist([ Hist EXCEPT
                   !.log = Append(@, LogAct("vmstop", current_run_state',
                                           r)) ])
    /\ pc' = IF aborted' THEN pc ELSE "wait"
    /\ r' = RUN_STATE_MAX
    /\ UNCHANGED boardVars
    /\ UNCHANGED << sig_pc, no_shutdown, configVars, flagVars, vmstopVars,
                    ret, countVars >>

(***************************************************************************)
(* vm_stop(state) and vm_start() called on the main thread by a handler    *)
(* that main_loop_wait() dispatches (monitor `stop' and `cont').           *)
(***************************************************************************)
MonitorStop(state) ==
    /\ pc = "wait"
    /\ ~aborted
    /\ nops < MaxOps
    /\ nops' = nops + 1
    /\ VmStop(state)
    /\ UNCHANGED boardVars
    /\ UNCHANGED << pc, sig_pc, no_shutdown, configVars, flagVars,
                    vmstopVars, localVars, npass, histVars >>

MonitorCont ==
    /\ pc = "wait"
    /\ ~aborted
    /\ nops < MaxOps
    /\ nops' = nops + 1
    /\ VmStart
    /\ SetHist([ Hist EXCEPT !.vmreqs = << >>,
                             !.unobserved = @ \ { "vmstop" } ])
    /\ UNCHANGED boardVars
    /\ UNCHANGED << pc, sig_pc, no_shutdown, configVars, flagVars,
                    localVars, npass >>

(***************************************************************************)
(* The request functions.  They are called by vCPU threads, device models  *)
(* and signal handlers, so a call is one step that may fall between any    *)
(* two steps of the main thread once main() has reached main_loop().       *)
(***************************************************************************)
Running ==
    /\ ~aborted
    /\ pc \notin { "start", "options", "getopt", "exited", "hax_failed" }

Requestable == Running /\ nops < MaxOps

qemu_system_reset_request_IgnoresNoReboot ==
    /\ Requestable
    /\ nops' = nops + 1
    /\ IF FALSE
       THEN /\ SetFlags([ Flags EXCEPT !.shutdown = 1 ])
            /\ SetHist(NoteSet(Hist, "shutdown"))
       ELSE /\ SetFlags([ Flags EXCEPT !.reset = 1 ])
            /\ SetHist(NoteSet(Hist, "reset"))
    /\ UNCHANGED << cpuVars, auxVars >>
    /\ UNCHANGED boardVars
    /\ UNCHANGED << pc, sig_pc, no_shutdown, configVars, runVars,
                    vmstopVars, localVars, npass >>

qemu_system_reset_request ==
    /\ Requestable
    /\ nops' = nops + 1
    /\ IF no_reboot # 0
       THEN /\ SetFlags([ Flags EXCEPT !.shutdown = 1 ])
            /\ SetHist(NoteSet(Hist, "shutdown"))
       ELSE /\ SetFlags([ Flags EXCEPT !.reset = 1 ])
            /\ SetHist(NoteSet(Hist, "reset"))
    /\ UNCHANGED << cpuVars, auxVars >>
    /\ UNCHANGED boardVars
    /\ UNCHANGED << pc, sig_pc, no_shutdown, configVars, runVars,
                    vmstopVars, localVars, npass >>

\* the call counts for `cost' among the calls of the behaviour
qemu_system_suspend_request(cost) ==
    /\ Running
    /\ nops + cost <= MaxOps
    /\ nops' = nops + cost
    /\ IF runstate_check(RUN_STATE_SUSPENDED)
       THEN UNCHANGED << flagVars, histVars >>
       ELSE /\ SetFlags([ Flags EXCEPT !.suspend = 1 ])
            /\ SetHist(NoteSet(Hist, "suspend"))
    /\ UNCHANGED << cpuVars, auxVars >>
    /\ UNCHANGED boardVars
    /\ UNCHANGED << pc, sig_pc, no_shutdown, configVars, runVars,
                    vmstopVars, localVars, npass >>

qemu_system_wakeup_request(reason) ==
    /\ Requestable
    /\ nops' = nops + 1
    /\ IF ~runstate_check(RUN_STATE_SUSPENDED)
          \/ reason \notin wakeup_reason_mask
       THEN UNCHANGED << runVars, flagVars, histVars >>
       ELSE /\ RunstateSet(RUN_STATE_RUNNING)
            /\ IF aborted'
               THEN UNCHANGED << flagVars, histVars >>
               ELSE /\ SetFlags([ Flags EXCEPT !.wakeup = reason ])
                    /\ SetHist(NoteSet(Hist, "wakeup"))
    /\ h_unpaused' = UnpausedSet("wakeup_request", vcpus_paused)
    /\ UNCHANGED << h_events, auxVars >>
    /\ UNCHANGED vcpus_paused
    /\ UNCHANGED boardVars
    /\ UNCHANGED << pc, sig_pc, no_shutdown, configVars, vmstopVars,
                    localVars, npass >>

qemu_system_shutdown_request ==
    /\ Requestable
    /\ nops' = nops + 1
    /\ SetFlags([ Flags EXCEPT !.shutdown = 1 ])
    /\ SetHist(NoteSet(Hist, "shutdown"))
    /\ UNCHANGED << cpuVars, auxVars >>
    /\ UNCHANGED boardVars
    /\ UNCHANGED << pc, sig_pc, no_shutdown, configVars, runVars,
                    vmstopVars, localVars, npass >>

\* qemu_system_killed(): shutdown_signal, shutdown_pid, no_shutdown = 0;
\* the call counts for `cost' among the calls of the behaviour
qemu_system_killed(cost) ==
    /\ Running
    /\ nops + cost <= MaxOps
    /\ sig_pc = "idle"
    /\ nops' = nops + cost
    /\ no_shutdown' = 0
    /\ sig_pc' = "killed"
    /\ UNCHANGED << cpuVars, auxVars >>
    /\ UNCHANGED boardVars
    /\ UNCHANGED << pc, configVars, runVars, flagVars, vmstopVars,
                    localVars, npass, histVars >>

\* qemu_system_killed(): qemu_system_shutdown_request()
qemu_system_killed_request ==
    /\ ~aborted
    /\ sig_pc = "killed"
    /\ sig_pc' = "idle"
    /\ SetFlags([ Flags EXCEPT !.shutdown = 1 ])
    /\ SetHist(NoteSet(Hist, "shutdown"))
    /\ UNCHANGED << cpuVars, auxVars >>
    /\ UNCHANGED boardVars
    /\ UNCHANGED << pc, no_shutdown, configVars, runVars, vmstopVars,
                    localVars, countVars >>

qemu_system_powerdown_request ==
    /\ Requestable
    /\ nops' = nops + 1
    /\ SetFlags([ Flags EXCEPT !.powerdown = 1 ])
    /\ SetHist(NoteSet(Hist, "powerdown"))
    /\ UNCHANGED << cpuVars, auxVars >>
    /\ UNCHANGED boardVars
    /\ UNCHANGED << pc, sig_pc, no_shutdown, configVars, runVars,
                    vmstopVars, localVars, npass >>

qemu_system_debug_request ==
    /\ Requestable
    /\ nops' = nops + 1
    /\ SetFlags([ Flags EXCEPT !.debug = 1 ])
    /\ SetHist(NoteSet(Hist, "debug"))
    /\ UNCHANGED << cpuVars, auxVars >>
    /\ UNCHANGED boardVars
    /\ UNCHANGED << pc, sig_pc, no_shutdown, configVars, runVars,
                    vmstopVars, localVars, npass >>

qemu_system_vmstop_request_prepare ==
    /\ Requestable
    /\ nops' = nops + 1
    /\ vmstop_lock = "free"
    /\ vmstop_lock' = "held"
    /\ UNCHANGED << cpuVars, auxVars >>
    /\ UNCHANGED boardVars
    /\ UNCHANGED << pc, sig_pc, no_shutdown, configVars, runVars, flagVars,
                    vmstop_requested, localVars, npass, histVars >>

\* a request that does not overwrite a pending one
qemu_system_vmstop_request_FirstWins(state) ==
    /\ ~aborted
    /\ vmstop_lock = "held"
    /\ vmstop_requested' = IF vmstop_requested = RUN_STATE_MAX
                           THEN state ELSE vmstop_requested
    /\ vmstop_lock' = "free"
    /\ SetHist([ NoteSet(Hist, "vmstop") EXCEPT
                   !.vmreqs = Append(@, state) ])
    /\ UNCHANGED << cpuVars, auxVars >>
    /\ UNCHANGED boardVars
    /\ UNCHANGED << pc, sig_pc, no_shutdown, configVars, runVars, flagVars,
                    localVars, countVars >>

qemu_system_vmstop_request(state) ==
    /\ ~aborted
    /\ vmstop_lock = "held"
    /\ vmstop_requested' = state
    /\ vmstop_lock' = "free"
    /\ SetHist([ NoteSet(Hist, "vmstop") EXCEPT
                   !.vmreqs = Append(@, state) ])
    /\ UNCHANGED << cpuVars, auxVars >>
    /\ UNCHANGED boardVars
    /\ UNCHANGED << pc, sig_pc, no_shutdown, configVars, runVars, flagVars,
                    localVars, countVars >>

(***************************************************************************)
(* Initial state: the static initialisers of vl.c.                         *)
(***************************************************************************)
Init ==
    /\ pc = "start"
    /\ aborted = FALSE
    /\ current_run_state = RUN_STATE_PRELAUNCH
    /\ runstate_valid_transitions = ZeroMatrix
    /\ vmstop_requested = RUN_STATE_MAX
    /\ vmstop_lock = "uninit"
    /\ reset_requested = 0
    /\ shutdown_requested = 0
    /\ powerdown_requested = 0
    /\ debug_requested = 0
    /\ suspend_requested = 0
    /\ wakeup_reason = QEMU_WAKEUP_REASON_NONE
    /\ wakeup_reason_mask = WakeupReason \ { QEMU_WAKEUP_REASON_NONE }
    /\ no_shutdown = 0
    /\ no_reboot = 0
    /\ autostart = 0
    /\ incoming = FALSE
    /\ ret = 0
    /\ r = RUN_STATE_MAX
    /\ sig_pc = "idle"
    /\ nops = 0
    /\ npass = 0
    /\ h_lastSet = NoCall
    /\ h_log = << >>
    /\ h_start = NoPass
    /\ h_unobserved = {}
    /\ h_lateSet = {}
    /\ h_vmreqs = << >>
    /\ h_drained = << >>
    /\ h_shutdownRequested = FALSE
    /\ vcpus_paused = TRUE
    /\ h_unpaused = {}
    /\ h_events = << >>
    /\ last_io = 0
    /\ nonblocking = FALSE
    /\ accel = "tcg"
    /\ vm_change_state_head = << >>
    /\ h_registered = << >>
    /\ h_calls = [ list |-> << >>, calls |-> << >> ]
    /\ smp_cpus = 1
    /\ max_cpus = 0
    /\ ram_size = DEFAULT_RAM_SIZE
    /\ cpu_model = "NULL"
    /\ n = 0
    /\ phandle = 0
    /\ board = << >>
    /\ exit_status = NoExit

(***************************************************************************)
(* The run-state machine on its own: runstate_init(), the -incoming option *)
(* and any sequence of runstate_set() calls.                               *)
(***************************************************************************)
NextRunState ==
    \/ runstate_init
    \/ MainDefaults
    \/ OptionIncoming
    \/ \E new_state \in RunStateOrMax : CallRunstateSet(new_state)
    \/ Launch

SpecRunState == Init /\ [][NextRunState]_vars

(***************************************************************************)
(* The program: main() of a VM started without -incoming, up to and        *)
(* including main_loop(), with the request functions called from other     *)
(* threads.                                                                *)
(***************************************************************************)
MainThread ==
    \/ runstate_init
    \/ MainDefaults
    \/ OptionS
    \/ OptionNoReboot
    \/ OptionNoShutdown
    \/ Launch
    \/ MainLoopEnter
    \/ MainLoopWait(0)
    \/ DebugRead
    \/ DebugClear
    \/ DebugAct
    \/ SuspendRead
    \/ SuspendClear
    \/ SuspendAct
    \/ ShutdownXchg
    \/ ShutdownAct
    \/ ResetRead
    \/ ResetClear
    \/ ResetAct
    \/ WakeupTest
    \/ WakeupNotify
    \/ WakeupClear
    \/ PowerdownRead
    \/ PowerdownClear
    \/ PowerdownAct
    \/ VmstopDrain
    \/ VmstopAct
    \/ MonitorCont
    \/ \E state \in VmStopTargets : MonitorStop(state)

Requests ==
    \/ qemu_system_reset_request
    \/ qemu_system_suspend_request(1)
    \/ \E reason \in WakeupReason : qemu_system_wakeup_request(reason)
    \/ qemu_system_shutdown_request
    \/ qemu_system_killed(1)
    \/ qemu_system_killed_request
    \/ qemu_system_powerdown_request
    \/ qemu_system_debug_request
    \/ qemu_system_vmstop_request_prepare
    \/ \E state \in VmStopTargets : qemu_system_vmstop_request(state)

Next == MainThread \/ Requests

Spec == Init /\ [][Next]_vars

(***************************************************************************)
(* The pairs listed in runstate_transitions_def, read off the array        *)
(* without the terminating entry.                                          *)
(***************************************************************************)
ListedTransitions ==
    { runstate_transitions_def[i] : i \in DOMAIN runstate_transitions_def }
        \ { << RUN_STATE_MAX, RUN_STATE_MAX >> }

(***************************************************************************)
(* C1: a runstate_set(to) made while the current run state is `from', with *)
(* (from, to) not in the transition table, aborts the process: the call    *)
(* does not return and the current run state is still `from'.              *)
(***************************************************************************)
C1_InvalidTransitionAborts ==
    ( /\ h_lastSet # NoCall
      /\ << h_lastSet.from, h_lastSet.to >> \notin ListedTransitions )
    => ( /\ aborted
         /\ ~h_lastSet.returned
         /\ current_run_state = h_lastSet.from )

C1_Witness ==
    /\ aborted
    /\ h_lastSet.from = RUN_STATE_PAUSED
    /\ h_lastSet.to = RUN_STATE_SUSPENDED
    /\ current_run_state = RUN_STATE_PAUSED

(***************************************************************************)
(* C2: a runstate_set(to) made while the current run state is `from', with *)
(* (from, to) in the transition table, returns normally; afterwards        *)
(* runstate_check(to) is true and runstate_check(s) is false for every     *)
(* other state s.                                                          *)
(***************************************************************************)
C2_ValidTransitionSucceeds ==
    ( /\ h_lastSet # NoCall
      /\ << h_lastSet.from, h_lastSet.to >> \in ListedTransitions )
    => ( /\ ~aborted
         /\ h_lastSet.returned
         /\ runstate_check(h_lastSet.to)
         /\ \A s \in RunState \ { h_lastSet.to } : ~runstate_check(s) )

C2_Witness ==
    /\ ~aborted
    /\ h_lastSet.from = RUN_STATE_FINISH_MIGRATE
    /\ h_lastSet.to = RUN_STATE_POSTMIGRATE
    /\ runstate_check(RUN_STATE_POSTMIGRATE)

(***************************************************************************)
(* C3: once runstate_init() has run, runstate_valid_transitions[from][to]  *)
(* is true exactly for the listed pairs, and the listed pairs include the  *)
(* transitions the run-state contract names.                               *)
(***************************************************************************)
NamedTransitions ==
    { << RUN_STATE_PRELAUNCH, RUN_STATE_RUNNING >>,
      << RUN_STATE_PRELAUNCH, RUN_STATE_INMIGRATE >>,
      << RUN_STATE_FINISH_MIGRATE, RUN_STATE_POSTMIGRATE >>,
      << RUN_STATE_POSTMIGRATE, RUN_STATE_RUNNING >> }
    \cup { << RUN_STATE_RUNNING, t >> : t \in
              { RUN_STATE_DEBUG, RUN_STATE_INTERNAL_ERROR, RUN_STATE_IO_ERROR,
                RUN_STATE_PAUSED, RUN_STATE_SUSPENDED,
                RUN_STATE_FINISH_MIGRATE, RUN_STATE_RESTORE_VM,
                RUN_STATE_SAVE_VM, RUN_STATE_SHUTDOWN, RUN_STATE_WATCHDOG,
                RUN_STATE_GUEST_PANICKED } }

C3_MatrixIsTheTable ==
    pc # "start"
    => ( /\ \A f \in RunState : \A t \in RunState :
               runstate_valid_transitions[f][t]
                   <=> << f, t >> \in ListedTransitions
         /\ \A p \in NamedTransitions :
               runstate_valid_transitions[p[1]][p[2]] )

C3_Witness ==
    /\ pc = "options"
    /\ runstate_valid_transitions[RUN_STATE_SUSPENDED][RUN_STATE_RUNNING]
    /\ ~runstate_valid_transitions[RUN_STATE_RUNNING][RUN_STATE_PRELAUNCH]

(***************************************************************************)
(* Reading the history of the current pass.                                *)
(***************************************************************************)
\* the positions of h_log at which the handler of flag f is recorded
Acts(f) == { i \in DOMAIN h_log : h_log[i].k = "act" /\ h_log[i].f = f }

Tested(f) == \E i \in DOMAIN h_log : h_log[i].k = "test" /\ h_log[i].f = f

\* the pass is beyond the test and the handler of flag f
PassBeyond(f) ==
    \/ pc = "wait" /\ npass > 0
    \/ Phase(pc) # "none" /\ Order(Phase(pc)) > Order(f)

(***************************************************************************)
(* C4: the loop of main_loop() ends in a pass exactly when that pass       *)
(* drained a shutdown request and found no_shutdown clear; no other flag   *)
(* ends it, and it never ends unless a shutdown request was made.          *)
(***************************************************************************)
C4_ExitIffShutdown ==
    /\ [](pc = "exited"
            <=> \E i \in Acts("shutdown") : h_log[i].arg = "exit")
    /\ [](pc = "exited" => h_shutdownRequested)
    /\ [](pc = "shutdown_act" => Tested("shutdown") /\ h_shutdownRequested)
    /\ [][ /\ (pc' = "exited" /\ pc # "exited")
               => (pc = "shutdown_act" /\ no_shutdown = 0)
           /\ (pc = "shutdown_act" /\ pc' # pc /\ no_shutdown = 0)
               => pc' = "exited"
           /\ (pc = "shutdown_act" /\ pc' # pc /\ no_shutdown # 0)
               => pc' = "reset_read" ]_vars

C4_Witness ==
    /\ pc = "exited"
    /\ npass = 2
    /\ Acts("shutdown") # {}
    /\ Acts("debug") # {}

(***************************************************************************)
(* C5: within one pass the flags are tested in the order debug, suspend,   *)
(* shutdown, reset, wakeup, powerdown, vmstop; the handler of a flag runs  *)
(* right after its test and before any later flag is tested; and every     *)
(* flag pending when the pass started has been handled once the pass is    *)
(* beyond it.                                                              *)
(***************************************************************************)
C5_FixedDrainOrder ==
    /\ \A i \in DOMAIN h_log : \A j \in DOMAIN h_log :
           i < j => /\ Order(h_log[i].f) <= Order(h_log[j].f)
                    /\ h_log[i].f = h_log[j].f
                           => /\ j = i + 1
                              /\ h_log[i].k = "test"
                              /\ h_log[j].k = "act"
    /\ \A i \in DOMAIN h_log :
           h_log[i].k = "act"
               => i > 1 /\ h_log[i - 1] = [ k |-> "test", f |-> h_log[i].f,
                                            rs |-> "-", arg |-> "-" ]
    /\ \A f \in FlagNames :
           Phase(pc) = f => \A i \in DOMAIN h_log :
                                Order(h_log[i].f) <= Order(f)
    /\ \A f \in h_start.pending :
           PassBeyond(f) => Cardinality(Acts(f)) = 1

C5_Witness ==
    /\ pc = "wait"
    /\ Acts("debug") # {}
    /\ Acts("powerdown") # {}
    /\ h_start.pending = { "debug", "powerdown" }

(***************************************************************************)
(* C6: a pass that starts in RUN_STATE_RUNNING with suspend and shutdown   *)
(* pending and no_shutdown clear fires the suspend handler, which leaves   *)
(* the run state SUSPENDED, then takes the shutdown exit; reset, wakeup,   *)
(* powerdown and vmstop are not tested in that pass.                       *)
(***************************************************************************)
SuspendAndShutdownPass ==
    /\ npass > 0
    /\ { "suspend", "shutdown" } \subseteq h_start.pending
    /\ h_start.no_shutdown = 0
    /\ h_start.rs = RUN_STATE_RUNNING

C6_SuspendThenExit ==
    SuspendAndShutdownPass
    => /\ ~aborted
       /\ pc # "wait"
       /\ \A f \in { "reset", "wakeup", "powerdown", "vmstop" } :
              ~Tested(f) /\ Phase(pc) # f
       /\ pc = "exited"
              => \E i \in Acts("suspend") : \E j \in Acts("shutdown") :
                     /\ i < j
                     /\ h_log[i].rs = RUN_STATE_SUSPENDED
                     /\ h_log[j].arg = "exit"

C6_Witness ==
    /\ SuspendAndShutdownPass
    /\ pc = "exited"
    /\ Acts("suspend") # {}

(***************************************************************************)
(* C7: handling a flag in main_loop_should_exit() never reaches the abort  *)
(* of runstate_set().                                                      *)
(***************************************************************************)
C7_FlagHandlingNeverAborts ==
    aborted => Phase(pc) = "none"

(***************************************************************************)
(* C8: no request is lost: as long as a call that set one of the flags     *)
(* reset, suspend, shutdown, powerdown, debug has not been seen by a drain,*)
(* the flag is still set.                                                  *)
(***************************************************************************)
C8_NoRequestLost ==
    \A f \in { "reset", "suspend", "shutdown", "powerdown", "debug" } :
        f \in h_unobserved => Pending(f)

Last(q) == q[Len(q)]

C10_LastVmstopWins ==
    /\ vmstop_requested
           = IF h_vmreqs = << >> THEN RUN_STATE_MAX ELSE Last(h_vmreqs)
    /\ pc = "vmstop_act" => h_drained # << >> /\ r = Last(h_drained)
    /\ (pc = "wait" /\ Tested("vmstop"))
           => IF h_drained = << >>
              THEN Acts("vmstop") = {}
              ELSE /\ Cardinality(Acts("vmstop")) = 1
                   /\ \A i \in Acts("vmstop") :
                          h_log[i].arg = Last(h_drained)

C10_Witness ==
    /\ pc = "wait"
    /\ Len(h_drained) = 2
    /\ h_drained[1] # h_drained[2]
    /\ \E i \in Acts("vmstop") : h_log[i].arg = h_drained[2]
    /\ vmstop_requested = RUN_STATE_MAX
    /\ current_run_state = h_drained[2]

(***************************************************************************)
(* C11: a pending request goes back to `none' only in the drain of its own *)
(* flag in main_loop_should_exit(), and each drain is an atomic            *)
(* read-and-clear: between the read and the clear of a drain the flag      *)
(* still holds the value that was read.                                    *)
(***************************************************************************)
C11_DrainExclusiveAndAtomic ==
    /\ [](pc = "debug_clear" => ret = debug_requested)
    /\ [](pc = "suspend_clear" => ret = suspend_requested)
    /\ [](pc = "reset_clear" => ret = reset_requested)
    /\ [](pc = "powerdown_clear" => ret = powerdown_requested)
    /\ [][ \A f \in FlagNames :
               (Pending(f) /\ ~Pending(f)') => Phase(pc) = f ]_vars

(***************************************************************************)
(* C12, as stated: vmstop_lock is held only for one update of              *)
(* vmstop_requested: it is not held when a function of the vmstop request  *)
(* API has returned to its caller, and the run state does not change while *)
(* it is held.                                                             *)
(***************************************************************************)
C12_LockHeldOnlyForFieldUpdate ==
    /\ [](vmstop_lock # "held")
    /\ [][ vmstop_lock = "held"
               => current_run_state' = current_run_state ]_vars

(***************************************************************************)
(* C12, amended: the main thread holds vmstop_lock only inside its         *)
(* read-and-clear of vmstop_requested.  A requester takes the lock in      *)
(* qemu_system_vmstop_request_prepare(), which returns with the lock held, *)
(* and gives it back in qemu_system_vmstop_request() together with the     *)
(* write of the field; from the one to the other nobody else writes the    *)
(* field and the drain of the main loop waits.                             *)
(***************************************************************************)
C12_LockScope ==
    /\ [][ (vmstop_lock # "held" /\ vmstop_lock' = "held")
               => UNCHANGED << pc, vmstop_requested, runVars >> ]_vars
    /\ [][ (vmstop_lock = "held" /\ vmstop_lock' # "held")
               => /\ vmstop_lock' = "free"
                  /\ vmstop_requested' \in VmStopTargets
                  /\ UNCHANGED << pc, runVars >> ]_vars
    /\ [][ (vmstop_lock = "held" /\ vmstop_lock' = "held")
               => vmstop_requested' = vmstop_requested ]_vars
    /\ [][ (pc = "vmstop_drain" /\ vmstop_lock = "held") => pc' = pc ]_vars
    /\ [][ (pc' # pc /\ pc # "start") => vmstop_lock' = vmstop_lock ]_vars

C12_Witness ==
    /\ vmstop_lock = "held"
    /\ pc = "vmstop_drain"
    /\ h_log # << >>

(***************************************************************************)
(* C13: once the main loop has started, every change of the current run    *)
(* state (by qemu_system_suspend, by the reset handling of                 *)
(* main_loop_should_exit, by qemu_system_wakeup_request and by vm_start)   *)
(* is made with all vCPUs paused: after a pause_all_vcpus() and before the *)
(* resume_all_vcpus() that follows it.                                     *)
(***************************************************************************)
C13_RunStateChangesWhilePaused ==
    h_unpaused = {}

(***************************************************************************)
(* The board of ranchu.c.  `board' is the trace of what ranchu_init() has  *)
(* done to the machine and to the flattened device tree: one entry per     *)
(* call, in call order.  A node of the tree is named by the text of its    *)
(* path and, where the path is printed from a number (cpu@%d, @%PRIx64),   *)
(* by that number.                                                         *)
(***************************************************************************)
NoUnit == -1

Ev(ev, node, unit, name, val) ==
    [ ev |-> ev, node |-> node, unit |-> unit, name |-> name, val |-> val ]

\* qemu_fdt_add_subnode(fdt, path)
AddSubnode(node, unit) == Ev("add_subnode", node, unit, "-", << >>)

\* qemu_fdt_setprop*(fdt, path, name, ...)
SetProp(node, unit, name, val) == Ev("setprop", node, unit, name, val)

\* sysbus_create_simple(name, base, pic[irq])
CreateDevice(name, base, irq) == Ev("device", name, base[2], "-", << irq >>)

\* the positions of a trace at which an entry of kind ev stands
Positions(log, ev) == { i \in DOMAIN log : log[i].ev = ev }

\* qemu_fdt_alloc_phandle(): the next unused phandle
AllocPhandle(last) == last + 1

\* create_fdt() that leaves the clock node without its phandle property
FdtHeader_NoClockPhandle(ph) ==
    << SetProp("/", NoUnit, "compatible", << "ranchu" >>),
       SetProp("/", NoUnit, "#address-cells", << 2 >>),
       SetProp("/", NoUnit, "#size-cells", << 2 >>),
       AddSubnode("/firmware", NoUnit),
       AddSubnode("/firmware/android", NoUnit),
       SetProp("/firmware/android", NoUnit, "compatible",
               << "android,firmware" >>),
       SetProp("/firmware/android", NoUnit, "hardware", << "ranchu" >>),
       AddSubnode("/chosen", NoUnit),
       AddSubnode("/memory", NoUnit),
       SetProp("/memory", NoUnit, "device_type", << "memory" >>),
       Ev("alloc_phandle", "-", NoUnit, "-", << ph >>),
       AddSubnode("/apb-pclk", NoUnit),
       SetProp("/apb-pclk", NoUnit, "compatible", << "fixed-clock" >>),
       SetProp("/apb-pclk", NoUnit, "#clock-cells", << 0 >>),
       SetProp("/apb-pclk", NoUnit, "clock-frequency", << 24000000 >>),
       SetProp("/apb-pclk", NoUnit, "clock-output-names", << "clk24mhz" >>) >>

\* create_fdt() up to the clock node; ph is the phandle of the clock
FdtHeader(ph) ==
    << SetProp("/", NoUnit, "compatible", << "ranchu" >>),
       SetProp("/", NoUnit, "#address-cells", << 2 >>),
       SetProp("/", NoUnit, "#size-cells", << 2 >>),
       AddSubnode("/firmware", NoUnit),
       AddSubnode("/firmware/android", NoUnit),
       SetProp("/firmware/android", NoUnit, "compatible",
               << "android,firmware" >>),
       SetProp("/firmware/android", NoUnit, "hardware", << "ranchu" >>),
       AddSubnode("/chosen", NoUnit),
       AddSubnode("/memory", NoUnit),
       SetProp("/memory", NoUnit, "device_type", << "memory" >>),
       Ev("alloc_phandle", "-", NoUnit, "-", << ph >>),
       AddSubnode("/apb-pclk", NoUnit),
       SetProp("/apb-pclk", NoUnit, "compatible", << "fixed-clock" >>),
       SetProp("/apb-pclk", NoUnit, "#clock-cells", << 0 >>),
       SetProp("/apb-pclk", NoUnit, "clock-frequency", << 24000000 >>),
       SetProp("/apb-pclk", NoUnit, "clock-output-names", << "clk24mhz" >>),
       SetProp("/apb-pclk", NoUnit, "phandle", << ph >>) >>

\* create_fdt(), the branch taken when kvm_enabled(); `known' tells whether
\* qemu_get_cpu(0) was a CPU that exists, and is noted with what was read
\* from it (psci_version == 2, AArch64); fns are the PSCI function numbers
\* << cpu_suspend, cpu_off, cpu_on, migrate >>: 0.2 with the 64-bit or the
\* 32-bit calling convention, or 0.1
FdtPsci(version, aarch64, known) ==
    LET fns == IF version = 2
               THEN IF aarch64
                    THEN << "0.2_FN64_CPU_SUSPEND", "0.2_FN_CPU_OFF",
                            "0.2_FN64_CPU_ON", "0.2_FN64_MIGRATE" >>
                    ELSE << "0.2_FN_CPU_SUSPEND", "0.2_FN_CPU_OFF",
                            "0.2_FN_CPU_ON", "0.2_FN_MIGRATE" >>
               ELSE << "0.1_FN_CPU_SUSPEND", "0.1_FN_CPU_OFF",
                       "0.1_FN_CPU_ON", "0.1_FN_MIGRATE" >>
    IN  << Ev("get_cpu", "cpu", 0, "psci_version",
              << known, version = 2, aarch64 >>),
           AddSubnode("/psci", NoUnit),
           SetProp("/psci", NoUnit, "compatible",
                   IF version = 2 THEN << "arm,psci-0.2", "arm,psci" >>
                                  ELSE << "arm,psci" >>),
           SetProp("/psci", NoUnit, "method", << "hvc" >>),
           SetProp("/psci", NoUnit, "cpu_suspend", << fns[1] >>),
           SetProp("/psci", NoUnit, "cpu_off", << fns[2] >>),
           SetProp("/psci", NoUnit, "cpu_on", << fns[3] >>),
           SetProp("/psci", NoUnit, "migrate", << fns[4] >>) >>

\* fdt_add_timer_nodes()
FdtTimer(irqflags) ==
    << AddSubnode("/timer", NoUnit),
       SetProp("/timer", NoUnit, "compatible", << "arm,armv7-timer" >>),
       SetProp("/timer", NoUnit, "interrupts",
               << 1, 13, irqflags, 1, 14, irqflags, 1, 11, irqflags,
                  1, 10, irqflags >>) >>

\* one pass of the loop of ranchu_init() that makes CPU number i
CpuObject(i) ==
    << Ev("cpu_new", "cpu", i, "-", << >>) >>
    \o ( IF i > 0
         THEN << Ev("cpu_prop", "cpu", i, "start-powered-off", << TRUE >>) >>
         ELSE << >> )
    \o << Ev("cpu_prop", "cpu", i, "reset-cbar",
             memmap.RANCHU_CPUPERIPHS.base),
          Ev("cpu_prop", "cpu", i, "realized", << TRUE >>) >>

\* the CPUs made so far: those whose object has been realized
RealizedCpus(log) ==
    { log[i].unit : i \in { j \in Positions(log, "cpu_prop") :
                                log[j].name = "realized" } }

\* fdt_add_cpu_nodes(): the body of the loop for one cpu, and the loop
\* itself from cpu down to 0
RECURSIVE CpuNodesFrom(_, _, _)
CpuNodesFrom(log, cpus, cpu) ==
    IF cpu >= 0
    THEN << Ev("get_cpu", "cpu", cpu, "dtb_compatible",
               << cpu \in RealizedCpus(log) >>),
            AddSubnode("/cpus/cpu@", cpu),
            SetProp("/cpus/cpu@", cpu, "device_type", << "cpu" >>),
            SetProp("/cpus/cpu@", cpu, "compatible", << "dtb_compatible" >>) >>
         \o ( IF cpus > 1
              THEN << SetProp("/cpus/cpu@", cpu, "enable-method",
                              << "psci" >>) >>
              ELSE << >> )
         \o << SetProp("/cpus/cpu@", cpu, "reg", << cpu >>) >>
         \o CpuNodesFrom(log, cpus, cpu - 1)
    ELSE << >>

FdtCpuNodes(log, cpus) ==
    << AddSubnode("/cpus", NoUnit),
       SetProp("/cpus", NoUnit, "#address-cells", << 1 >>),
       SetProp("/cpus", NoUnit, "#size-cells", << 0 >>) >>
    \o CpuNodesFrom(log, cpus, cpus - 1)

\* create_gic(): the loop that wires CPU i, from i up to cpus - 1
RECURSIVE GicWiresFrom(_, _, _)
GicWiresFrom(log, cpus, i) ==
    IF i < cpus
    THEN << Ev("get_cpu", "cpu", i, "gpio", << i \in RealizedCpus(log) >>),
            Ev("wire", "cpu-timer-phys", i, "gic-in",
               << NUM_IRQS + i * 32 + 30 >>),
            Ev("wire", "cpu-timer-virt", i, "gic-in",
               << NUM_IRQS + i * 32 + 27 >>),
            Ev("wire", "gic-out", i, "cpu-irq", << i >>) >>
         \o GicWiresFrom(log, cpus, i + 1)
    ELSE << >>

\* fdt_add_gic_node() that gives /intc a phandle of its own making
FdtGicNode_OtherPhandle(ph) ==
    << Ev("alloc_phandle", "-", NoUnit, "-", << ph >>),
       SetProp("/", NoUnit, "interrupt-parent", << ph >>),
       AddSubnode("/intc", NoUnit),
       SetProp("/intc", NoUnit, "phandle", << ph + 1 >>) >>

\* fdt_add_gic_node(); ph is the phandle it allocates
FdtGicNode(ph) ==
    << Ev("alloc_phandle", "-", NoUnit, "-", << ph >>),
       SetProp("/", NoUnit, "interrupt-parent", << ph >>),
       AddSubnode("/intc", NoUnit),
       SetProp("/intc", NoUnit, "compatible", << "arm,cortex-a15-gic" >>),
       SetProp("/intc", NoUnit, "#interrupt-cells", << 3 >>),
       SetProp("/intc", NoUnit, "interrupt-controller", << >>),
       SetProp("/intc", NoUnit, "reg",
               << memmap.RANCHU_GIC_DIST.base, memmap.RANCHU_GIC_DIST.size,
                  memmap.RANCHU_GIC_CPU.base, memmap.RANCHU_GIC_CPU.size >>),
       SetProp("/intc", NoUnit, "phandle", << ph >>) >>

\* create_gic(): the device with its num-cpu property, the wiring of every
\* CPU, then the node
CreateGic(log, cpus, ph) ==
    << Ev("device", "arm_gic", memmap.RANCHU_GIC_DIST.base[2], "num-cpu",
          << cpus >>) >>
    \o GicWiresFrom(log, cpus, 0)
    \o FdtGicNode(ph)

\* create_simple_device() that never writes the interrupts property
CreateSimpleDevice_NoInterrupts(devid, sysbus_name, compat, clocks, clk) ==
    << CreateDevice(sysbus_name, memmap[devid].base, irqmap[devid]),
       AddSubnode(sysbus_name, memmap[devid].base[2]),
       SetProp(sysbus_name, memmap[devid].base[2], "compatible", compat),
       SetProp(sysbus_name, memmap[devid].base[2], "reg",
               << memmap[devid].base, memmap[devid].size >>) >>
    \o ( IF FALSE
         THEN << SetProp(sysbus_name, memmap[devid].base[2], "interrupts",
                         << 0, irqmap[devid], 4 >>) >>
         ELSE << >> )
    \o ( IF clocks # << >>
         THEN << SetProp(sysbus_name, memmap[devid].base[2], "clocks",
                         << clk, clk >>),
                 SetProp(sysbus_name, memmap[devid].base[2], "clock-names",
                         clocks) >>
         ELSE << >> )

\* create_simple_device(vbi, pic, devid, sysbus_name, compat, ..., clocks, ..)
\* with clock phandle clk
CreateSimpleDevice(devid, sysbus_name, compat, clocks, clk) ==
    << CreateDevice(sysbus_name, memmap[devid].base, irqmap[devid]),
       AddSubnode(sysbus_name, memmap[devid].base[2]),
       SetProp(sysbus_name, memmap[devid].base[2], "compatible", compat),
       SetProp(sysbus_name, memmap[devid].base[2], "reg",
               << memmap[devid].base, memmap[devid].size >>) >>
    \o ( IF irqmap[devid] # 0
         THEN << SetProp(sysbus_name, memmap[devid].base[2], "interrupts",
                         << 0, irqmap[devid], 4 >>) >>
         ELSE << >> )
    \o ( IF clocks # << >>
         THEN << SetProp(sysbus_name, memmap[devid].base[2], "clocks",
                         << clk, clk >>),
                 SetProp(sysbus_name, memmap[devid].base[2], "clock-names",
                         clocks) >>
         ELSE << >> )

\* the six create_simple_device() calls of ranchu_init()
CreateSimpleDevices(clk) ==
    CreateSimpleDevice("RANCHU_UART", "pl011",
                       << "arm,pl011", "arm,primecell" >>,
                       << "uartclk", "apb_pclk" >>, clk)
    \o CreateSimpleDevice("RANCHU_GF_FB", "goldfish_fb",
                          << "generic,goldfish-fb" >>, << >>, clk)
    \o CreateSimpleDevice("RANCHU_GF_BATTERY", "goldfish_battery",
                          << "generic,goldfish-battery" >>, << >>, clk)
    \o CreateSimpleDevice("RANCHU_GF_AUDIO", "goldfish_audio",
                          << "generic,goldfish-audio" >>, << >>, clk)
    \o CreateSimpleDevice("RANCHU_GF_EVDEV", "goldfish-events",
                          << "generic,goldfish-events-keypad" >>, << >>, clk)
    \o CreateSimpleDevice("RANCHU_ANDROID_PIPE", "android_pipe",
                          << "generic,android-pipe" >>, << >>, clk)

\* create_virtio_devices(): base and irq of transport i, the first loop
\* (i = 0 .. NUM_VIRTIO_TRANSPORTS - 1) and the second (back down to 0)
VirtioBase(i) == memmap.RANCHU_MMIO.base[2] + i * memmap.RANCHU_MMIO.size[2]

VirtioIrq(i) == irqmap.RANCHU_MMIO + i

\* the second loop running in the direction of the first
RECURSIVE VirtioNodesFrom_Ascending(_)
VirtioNodesFrom_Ascending(i) ==
    LET k == NUM_VIRTIO_TRANSPORTS - 1 - i
    IN  IF i >= 0
        THEN << AddSubnode("/virtio_mmio@", VirtioBase(k)),
                SetProp("/virtio_mmio@", VirtioBase(k), "compatible",
                        << "virtio,mmio" >>),
                SetProp("/virtio_mmio@", VirtioBase(k), "reg",
                        << << 0, VirtioBase(k) >>, memmap.RANCHU_MMIO.size >>),
                SetProp("/virtio_mmio@", VirtioBase(k), "interrupts",
                        << 0, VirtioIrq(k), 1 >>) >>
             \o VirtioNodesFrom_Ascending(i - 1)
        ELSE << >>

RECURSIVE VirtioNodesFrom(_)
VirtioNodesFrom(i) ==
    IF i >= 0
    THEN << AddSubnode("/virtio_mmio@", VirtioBase(i)),
            SetProp("/virtio_mmio@", VirtioBase(i), "compatible",
                    << "virtio,mmio" >>),
            SetProp("/virtio_mmio@", VirtioBase(i), "reg",
                    << << 0, VirtioBase(i) >>, memmap.RANCHU_MMIO.size >>),
            SetProp("/virtio_mmio@", VirtioBase(i), "interrupts",
                    << 0, VirtioIrq(i), 1 >>) >>
         \o VirtioNodesFrom(i - 1)
    ELSE << >>

CreateVirtioDevices ==
    [ i \in 1 .. NUM_VIRTIO_TRANSPORTS |->
          CreateDevice("virtio-mmio", << 0, VirtioBase(i - 1) >>,
                       VirtioIrq(i - 1)) ]
    \o VirtioNodesFrom(NUM_VIRTIO_TRANSPORTS - 1)

(***************************************************************************)
(* 32-bit arithmetic of smp_parse().  An `unsigned' and the `int' it is    *)
(* assigned to are both written as the signed value of their 32 bits, so   *)
(* the conversion between them changes nothing and x = 0 tests the bits.   *)
(***************************************************************************)
\* a * b of two unsigned, i.e. modulo 2^32, computed on 16-bit halves
MulU32(a, b) ==
    LET Lo16(v) == v % 65536
        Hi16(v) == (v \div 65536) % 65536
        MulMod16(p, q) ==
            ((p % 256) * q + (((p \div 256) * q) % 256) * 256) % 65536
        x == (Lo16(a) \div 256) * Lo16(b)
        y == (Lo16(a) % 256) * Lo16(b)
        m == MulMod16(Hi16(a), Lo16(b)) + MulMod16(Lo16(a), Hi16(b))
        lo_sum == (x % 256) * 256 + (y % 65536)
        lo == lo_sum % 65536
        hi == ((x \div 256) + (y \div 65536) + m + (lo_sum \div 65536))
                  % 65536
    IN  IF hi >= 32768 THEN (hi - 65536) * 65536 + lo ELSE hi * 65536 + lo

(***************************************************************************)
(* main() between the option loop and machine_class->init().               *)
(***************************************************************************)
\* -m size: 0 stands for the default; QEMU_ALIGN_UP(sz, 8192)
OptionM(sz) ==
    /\ pc = "getopt"
    /\ ~aborted
    /\ LET given == IF sz = << 0, 0 >> THEN DEFAULT_RAM_SIZE ELSE sz
           lo == ((given[2] + 8191) \div 8192) * 8192
       IN  ram_size' = IF lo = GiB THEN << given[1] + 1, 0 >>
                                   ELSE << given[1], lo >>
    /\ UNCHANGED << smp_cpus, max_cpus, cpu_model, n, phandle, board,
                    exit_status >>
    /\ UNCHANGED << pc, sig_pc, no_shutdown, configVars, runVars, flagVars,
                    vmstopVars, localVars, countVars, histVars, cpuVars, auxVars >>

\* -cpu model
OptionCpu(model) ==
    /\ pc = "getopt"
    /\ ~aborted
    /\ cpu_model' = model
    /\ UNCHANGED << smp_cpus, max_cpus, ram_size, n, phandle, board,
                    exit_status >>
    /\ UNCHANGED << pc, sig_pc, no_shutdown, configVars, runVars, flagVars,
                    vmstopVars, localVars, countVars, histVars, cpuVars, auxVars >>

\* smp_parse(opts), with opts the -smp option or NULL.  OrOne is
\* `x > 0 ? x : 1' of an unsigned, Cpus the value left in `cpus', Divisor
\* the divisor of the division smp_parse() makes when Divides; a division
\* by zero traps or goes on, depending on the host.  Finish is the end of
\* the function: max_cpus defaults to smp_cpus and is checked.
smp_parse ==
    LET SmpValues == { 0, 1, 2, 65536 }
        OrOne(x) == IF x # 0 THEN x ELSE 1
        Cpus(o) ==
            IF o.cpus = 0
            THEN MulU32(MulU32(OrOne(o.cores), OrOne(o.threads)),
                        OrOne(o.sockets))
            ELSE o.cpus
        Divisor(o) ==
            IF o.cores = 0 THEN MulU32(o.sockets, OrOne(o.threads))
                           ELSE MulU32(o.cores, o.sockets)
        Divides(o) == o.cpus # 0 /\ o.sockets # 0
        Finish(cpus, maxcpus) ==
            LET max == IF maxcpus = 0 THEN cpus ELSE maxcpus
            IN  /\ smp_cpus' = cpus
                /\ max_cpus' = max
                /\ IF max > MAX_CPUMASK_BITS \/ max < cpus
                   THEN pc' = "exit" /\ exit_status' = 0
                   ELSE pc' = "max_cpus_check" /\ UNCHANGED exit_status
    IN  /\ pc = "getopt"
        /\ ~aborted
        /\ \/ Finish(smp_cpus, max_cpus)
           \/ \E o \in [ cpus : SmpValues, sockets : SmpValues,
                         cores : SmpValues, threads : SmpValues,
                         maxcpus : SmpValues ] :
                  \/ /\ Divides(o) => Divisor(o) # 0
                     /\ Finish(Cpus(o), o.maxcpus)
                  \/ /\ Divides(o) /\ Divisor(o) = 0
                     /\ \/ Finish(Cpus(o), o.maxcpus)
                        \/ /\ pc' = "crashed"
                           /\ UNCHANGED << smp_cpus, max_cpus, exit_status >>
        /\ UNCHANGED << ram_size, cpu_model, n, phandle, board >>
        /\ UNCHANGED << sig_pc, no_shutdown, configVars, runVars, flagVars,
                        vmstopVars, localVars, countVars, histVars, cpuVars, auxVars >>

\* `if (smp_cpus > machine_class->max_cpus) return 1', with the max_cpus of
\* ranchu_machine, then ram_size and cpu_model handed to the machine and
\* machine_class->init(current_machine) called
machine_init ==
    /\ pc = "max_cpus_check"
    /\ ~aborted
    /\ IF smp_cpus > 1
       THEN pc' = "exit" /\ exit_status' = 1
       ELSE pc' = "ranchu_init" /\ UNCHANGED exit_status
    /\ UNCHANGED << optVars, n, phandle, board >>
    /\ UNCHANGED << sig_pc, no_shutdown, configVars, runVars, flagVars,
                    vmstopVars, localVars, countVars, histVars, cpuVars, auxVars >>

(***************************************************************************)
(* ranchu_init(), statement by statement.  The values that come from       *)
(* outside the board (create_device_tree(), kvm_enabled(), the ports that  *)
(* are free) are chosen when the board asks for them.                      *)
(***************************************************************************)
mainVars ==
    << sig_pc, no_shutdown, configVars, runVars, flagVars, vmstopVars,
       localVars, countVars, histVars, cpuVars, auxVars >>

\* exit(status)
Exit(status) ==
    /\ pc' = "exit"
    /\ exit_status' = status

\* cpu_model defaults to cortex-a57; vbi->smp_cpus = smp_cpus; the RAM check
\* with `>' turned into `>='
ranchu_init_NoRoomForEqual ==
    /\ pc = "ranchu_init"
    /\ ~aborted
    /\ cpu_model' = IF cpu_model = "NULL" THEN "cortex-a57" ELSE cpu_model
    /\ IF ~SizeGt(memmap.RANCHU_MEM.size, ram_size)
       THEN Exit(1)
       ELSE pc' = "create_fdt" /\ UNCHANGED exit_status
    /\ UNCHANGED << smp_cpus, max_cpus, ram_size, n, phandle, board >>
    /\ UNCHANGED mainVars

\* cpu_model defaults to cortex-a57; vbi->smp_cpus = smp_cpus; the RAM check
ranchu_init ==
    /\ pc = "ranchu_init"
    /\ ~aborted
    /\ cpu_model' = IF cpu_model = "NULL" THEN "cortex-a57" ELSE cpu_model
    /\ IF SizeGt(ram_size, memmap.RANCHU_MEM.size)
       THEN Exit(1)
       ELSE pc' = "create_fdt" /\ UNCHANGED exit_status
    /\ UNCHANGED << smp_cpus, max_cpus, ram_size, n, phandle, board >>
    /\ UNCHANGED mainVars

\* create_fdt(vbi).  With kvm_enabled() it reads psci_version and the
\* AArch64 feature of qemu_get_cpu(0); when no CPU has been made yet that
\* is a read through a null pointer, which traps or yields any value.
create_fdt ==
    /\ pc = "create_fdt"
    /\ ~aborted
    /\ \E fdt_ok \in BOOLEAN, kvm \in BOOLEAN :
         IF ~fdt_ok
         THEN Exit(1) /\ UNCHANGED << phandle, board >>
         ELSE /\ phandle' = AllocPhandle(phandle)
              /\ UNCHANGED exit_status
              /\ IF ~kvm
                 THEN /\ board' = board \o FdtHeader(phandle')
                      /\ pc' = "timer"
                 ELSE \/ /\ 0 \notin RealizedCpus(board)
                         /\ board' = board \o FdtHeader(phandle')
                         /\ pc' = "crashed"
                      \/ \E version \in { 1, 2 }, aarch64 \in BOOLEAN :
                           /\ board' = board \o FdtHeader(phandle')
                                  \o FdtPsci(version, aarch64,
                                             0 \in RealizedCpus(board))
                           /\ pc' = "timer"
    /\ UNCHANGED << optVars, n >>
    /\ UNCHANGED mainVars

\* the values (1 << smp_cpus) - 1 can deposit: the shift is undefined for
\* a count outside 0 .. 31
TimerIrqFlagsOf(cpus) ==
    IF cpus \in 0 .. 30
    THEN { 1 + 256 * (((2 ^ cpus) - 1) % 256) }
    ELSE { 1 + 256 * m : m \in { 0, 1, 255 } }

fdt_add_timer_nodes ==
    /\ pc = "timer"
    /\ ~aborted
    /\ \E irqflags \in TimerIrqFlagsOf(smp_cpus) :
           board' = board \o FdtTimer(irqflags)
    /\ n' = 0
    /\ pc' = "cpu_loop"
    /\ UNCHANGED << optVars, phandle, exit_status >>
    /\ UNCHANGED mainVars

\* the loop body with the test `n > 0' turned into `n >= 0'
ranchu_init_cpu_AllPoweredOff ==
    /\ pc = "cpu_loop"
    /\ ~aborted
    /\ IF n < smp_cpus
       THEN IF cpu_model \notin KnownCpuModels
            THEN Exit(1) /\ UNCHANGED << n, board >>
            ELSE /\ board' = board \o
                       << Ev("cpu_new", "cpu", n, "-", << >>),
                          Ev("cpu_prop", "cpu", n, "start-powered-off",
                             << TRUE >>),
                          Ev("cpu_prop", "cpu", n, "realized", << TRUE >>) >>
                 /\ n' = n + 1
                 /\ UNCHANGED << pc, exit_status >>
       ELSE /\ pc' = "cpu_nodes"
            /\ UNCHANGED << n, board, exit_status >>
    /\ UNCHANGED << optVars, phandle >>
    /\ UNCHANGED mainVars

\* for (n = 0; n < smp_cpus; n++): one pass, or the end of the loop
ranchu_init_cpu ==
    /\ pc = "cpu_loop"
    /\ ~aborted
    /\ IF n < smp_cpus
       THEN IF cpu_model \notin KnownCpuModels
            THEN Exit(1) /\ UNCHANGED << n, board >>
            ELSE /\ board' = board \o CpuObject(n)
                 /\ n' = n + 1
                 /\ UNCHANGED << pc, exit_status >>
       ELSE /\ pc' = "cpu_nodes"
            /\ UNCHANGED << n, board, exit_status >>
    /\ UNCHANGED << optVars, phandle >>
    /\ UNCHANGED mainVars

\* fdt_add_cpu_nodes(vbi), then the RAM region at memmap[RANCHU_MEM].base
fdt_add_cpu_nodes ==
    /\ pc = "cpu_nodes"
    /\ ~aborted
    /\ board' = board \o FdtCpuNodes(board, smp_cpus)
                      \o << Ev("ram", "ranchu.ram", NoUnit, "-",
                               << memmap.RANCHU_MEM.base, ram_size >>) >>
    /\ pc' = "gic"
    /\ UNCHANGED << optVars, n, phandle, exit_status >>
    /\ UNCHANGED mainVars

\* create_gic(vbi, pic)
create_gic ==
    /\ pc = "gic"
    /\ ~aborted
    /\ phandle' = AllocPhandle(phandle)
    /\ board' = board \o CreateGic(board, smp_cpus, phandle')
    /\ pc' = "devices"
    /\ UNCHANGED << optVars, n, exit_status >>
    /\ UNCHANGED mainVars

\* ranchu_init() that goes from the six devices straight to the console
create_simple_devices_ThenConsole ==
    /\ pc = "devices"
    /\ ~aborted
    /\ LET allocs == Positions(board, "alloc_phandle")
           first == CHOOSE i \in allocs : \A j \in allocs : i <= j
       IN  board' = board \o CreateSimpleDevices(board[first].val[1])
    /\ pc' = "console"
    /\ UNCHANGED << optVars, n, phandle, exit_status >>
    /\ UNCHANGED mainVars

\* the six create_simple_device() calls, with vbi->clock_phandle: the
\* phandle create_fdt() allocated
create_simple_devices ==
    /\ pc = "devices"
    /\ ~aborted
    /\ LET allocs == Positions(board, "alloc_phandle")
           first == CHOOSE i \in allocs : \A j \in allocs : i <= j
       IN  board' = board \o CreateSimpleDevices(board[first].val[1])
    /\ pc' = "virtio"
    /\ UNCHANGED << optVars, n, phandle, exit_status >>
    /\ UNCHANGED mainVars

\* create_virtio_devices(vbi, pic)
create_virtio_devices ==
    /\ pc = "virtio"
    /\ ~aborted
    /\ board' = board \o CreateVirtioDevices
    /\ pc' = "console"
    /\ UNCHANGED << optVars, n, phandle, exit_status >>
    /\ UNCHANGED mainVars

\* the loop of initialize_console_and_adb() that keeps the console chardev
\* of a pair whose ADB port could not be opened
RECURSIVE ConsoleTries_NoDelete(_, _, _, _)
ConsoleTries_NoDelete(baseport, tries, failed, how) ==
    IF tries = 0
    THEN << >>
    ELSE IF failed > 0
    THEN ( IF how = "adb" \/ (how = "mixed" /\ failed % 2 = 1)
           THEN << Ev("chardev_new", "console", baseport, "-", << TRUE >>),
                   Ev("adb_server_init", "adb", baseport + 1, "-",
                      << FALSE >>) >>
           ELSE << Ev("chardev_new", "console", baseport, "-",
                      << FALSE >>) >> )
         \o ConsoleTries_NoDelete(baseport + 2, tries - 1, failed - 1, how)
    ELSE << Ev("chardev_new", "console", baseport, "-", << TRUE >>),
            Ev("adb_server_init", "adb", baseport + 1, "-", << TRUE >>),
            Ev("monitor", "android-console", baseport, "-", << >>),
            Ev("base_port_write", "android_base_port", baseport, "-",
               << >>) >>

\* the loop of initialize_console_and_adb() from port `baseport' with
\* `tries' tries left: the first `failed' pairs cannot be opened, by the
\* console port being busy (how = "console"), by the ADB port being busy
\* ("adb"), or by the one and the other in turn ("mixed"); the next pair
\* opens
RECURSIVE ConsoleTries(_, _, _, _)
ConsoleTries(baseport, tries, failed, how) ==
    IF tries = 0
    THEN << >>
    ELSE IF failed > 0
    THEN ( IF how = "adb" \/ (how = "mixed" /\ failed % 2 = 1)
           THEN << Ev("chardev_new", "console", baseport, "-", << TRUE >>),
                   Ev("adb_server_init", "adb", baseport + 1, "-",
                      << FALSE >>),
                   Ev("chardev_delete", "console", baseport, "-", << >>) >>
           ELSE << Ev("chardev_new", "console", baseport, "-",
                      << FALSE >>) >> )
         \o ConsoleTries(baseport + 2, tries - 1, failed - 1, how)
    ELSE << Ev("chardev_new", "console", baseport, "-", << TRUE >>),
            Ev("adb_server_init", "adb", baseport + 1, "-", << TRUE >>),
            Ev("monitor", "android-console", baseport, "-", << >>),
            Ev("base_port_write", "android_base_port", baseport, "-",
               << >>) >>

\* initialize_console_and_adb(vbi), entered with android_base_port = port0
initialize_console_and_adb ==
    /\ pc = "console"
    /\ ~aborted
    /\ \E port0 \in { 0, 5554, 5560 },
          failed \in { 0, 1, 2, MAX_ANDROID_EMULATORS - 1,
                       MAX_ANDROID_EMULATORS },
          how \in { "console", "adb", "mixed" } :
           LET ANDROID_CONSOLE_BASEPORT == 5554
               baseport == IF port0 > ANDROID_CONSOLE_BASEPORT
                           THEN port0 ELSE ANDROID_CONSOLE_BASEPORT
           IN  /\ board' = board
                       \o << Ev("base_port_read", "android_base_port", port0,
                                "-", << >>) >>
                       \o ConsoleTries(baseport, MAX_ANDROID_EMULATORS,
                                       failed, how)
               /\ IF failed >= MAX_ANDROID_EMULATORS
                  THEN Exit(1)
                  ELSE pc' = "load_kernel" /\ UNCHANGED exit_status
    /\ UNCHANGED << optVars, n, phandle >>
    /\ UNCHANGED mainVars

\* vbi->bootinfo filled in and arm_load_kernel(ARM_CPU(first_cpu), ...)
\* called; ranchu_init() returns
arm_load_kernel ==
    /\ pc = "load_kernel"
    /\ ~aborted
    /\ board' = Append(board, Ev("load_kernel", "first_cpu", smp_cpus, "-",
                                 << 0 \in RealizedCpus(board) >>))
    /\ pc' = "init_returned"
    /\ UNCHANGED << optVars, n, phandle, exit_status >>
    /\ UNCHANGED mainVars

(***************************************************************************)
(* main() from the return of machine_class->init() to main_loop().         *)
(***************************************************************************)
\* realtime_init(), audio_init(), the initial hax sync: each may end main()
\* with status 1
after_machine_init ==
    /\ pc = "init_returned"
    /\ ~aborted
    /\ \E ok \in BOOLEAN :
           IF ok THEN pc' = "notifiers" /\ UNCHANGED exit_status
                 ELSE Exit(1)
    /\ UNCHANGED << optVars, n, phandle, board >>
    /\ UNCHANGED mainVars

\* qemu_run_machine_init_done_notifiers(), rom_load_done()
qemu_run_machine_init_done_notifiers ==
    /\ pc = "notifiers"
    /\ ~aborted
    /\ board' = Append(board, Ev("machine_init_done", "-", NoUnit, "-",
                                 << >>))
    /\ pc' = "reset"
    /\ UNCHANGED << optVars, n, phandle, exit_status >>
    /\ UNCHANGED mainVars

\* main() that starts the VM without the initial reset
qemu_system_reset_Skipped ==
    /\ pc = "reset"
    /\ ~aborted
    /\ pc' = "launch"
    /\ UNCHANGED boardVars
    /\ UNCHANGED mainVars

\* qemu_system_reset(VMRESET_SILENT)
qemu_system_reset ==
    /\ pc = "reset"
    /\ ~aborted
    /\ board' = Append(board, Ev("system_reset", "-", NoUnit, "-", << >>))
    /\ pc' = "launch"
    /\ UNCHANGED << optVars, n, phandle, exit_status >>
    /\ UNCHANGED mainVars

(***************************************************************************)
(* main() of a VM started on the ranchu board, up to the main loop.        *)
(***************************************************************************)
NextBoard ==
    \/ runstate_init
    \/ MainDefaults
    \/ OptionS
    \/ \E sz \in { << 0, 0 >>, << 29, GiB - 1 >>, << 30, 0 >>, << 30, 1 >>,
                   << 31, 0 >> } : OptionM(sz)
    \/ \E model \in CpuModels : OptionCpu(model)
    \/ smp_parse
    \/ machine_init
    \/ ranchu_init
    \/ create_fdt
    \/ fdt_add_timer_nodes
    \/ ranchu_init_cpu
    \/ fdt_add_cpu_nodes
    \/ create_gic
    \/ create_simple_devices
    \/ create_virtio_devices
    \/ initialize_console_and_adb
    \/ arm_load_kernel
    \/ after_machine_init
    \/ qemu_run_machine_init_done_notifiers
    \/ qemu_system_reset
    \/ LaunchAt("launch")
    \/ MainLoopEnter

SpecBoard == Init /\ [][NextBoard]_vars

(***************************************************************************)
(* ranchu_init() on its own: the state in which main() calls               *)
(* machine_class->init(), with the CPU count, the RAM size and the CPU     *)
(* model the function is given drawn from the values below.                *)
(***************************************************************************)
InitRanchu ==
    /\ pc = "ranchu_init"
    /\ aborted = FALSE
    /\ current_run_state = RUN_STATE_PRELAUNCH
    /\ runstate_valid_transitions = FillTransitions(ZeroMatrix, 1)
    /\ vmstop_requested = RUN_STATE_MAX
    /\ vmstop_lock = "free"
    /\ reset_requested = 0
    /\ shutdown_requested = 0
    /\ powerdown_requested = 0
    /\ debug_requested = 0
    /\ suspend_requested = 0
    /\ wakeup_reason = QEMU_WAKEUP_REASON_NONE
    /\ wakeup_reason_mask = WakeupReason \ { QEMU_WAKEUP_REASON_NONE }
    /\ no_shutdown = 0
    /\ no_reboot = 0
    /\ autostart = 1
    /\ incoming = FALSE
    /\ ret = 0
    /\ r = RUN_STATE_MAX
    /\ sig_pc = "idle"
    /\ nops = 0
    /\ npass = 0
    /\ h_lastSet = NoCall
    /\ h_log = << >>
    /\ h_start = NoPass
    /\ h_unobserved = {}
    /\ h_lateSet = {}
    /\ h_vmreqs = << >>
    /\ h_drained = << >>
    /\ h_shutdownRequested = FALSE
    /\ vcpus_paused = TRUE
    /\ h_unpaused = {}
    /\ h_events = << >>
    /\ last_io = 0
    /\ nonblocking = FALSE
    /\ accel = "tcg"
    /\ vm_change_state_head = << >>
    /\ h_registered = << >>
    /\ h_calls = [ list |-> << >>, calls |-> << >> ]
    /\ smp_cpus \in 0 .. MaxCpus
    /\ max_cpus = smp_cpus
    /\ ram_size \in { DEFAULT_RAM_SIZE, << 29, GiB - 8192 >>, << 30, 0 >>,
                       << 30, 1 >>, << 30, 8192 >> }
    /\ cpu_model \in CpuModels
    /\ n = 0
    /\ phandle = 0
    /\ board = << >>
    /\ exit_status = NoExit

NextRanchu ==
    \/ ranchu_init
    \/ create_fdt
    \/ fdt_add_timer_nodes
    \/ ranchu_init_cpu
    \/ fdt_add_cpu_nodes
    \/ create_gic
    \/ create_simple_devices
    \/ create_virtio_devices
    \/ initialize_console_and_adb
    \/ arm_load_kernel

SpecRanchu == InitRanchu /\ [][NextRanchu]_vars

(***************************************************************************)
(* The list of vm-state-change handlers.  Device models register and       *)
(* unregister their handlers while the machine is built and while it       *)
(* runs; an entry is the object g_malloc0() returned, told apart by `id'.  *)
(***************************************************************************)
qemu_add_vm_change_state_handler ==
    /\ pc \in { "getopt", "main_loop", "wait" }
    /\ ~aborted
    /\ Len(h_registered) < MaxHandlers
    /\ \E cb \in { "cb1", "cb2" } :
           LET e == [ id |-> Len(h_registered) + 1, cb |-> cb,
                      opaque |-> "opaque" ]
           IN  /\ vm_change_state_head' = << e >> \o vm_change_state_head
               /\ h_registered' = Append(h_registered, e)
    /\ UNCHANGED << last_io, nonblocking, accel, h_calls >>
    /\ UNCHANGED cpuVars
    /\ UNCHANGED boardVars
    /\ UNCHANGED << pc, sig_pc, no_shutdown, configVars, runVars, flagVars,
                    vmstopVars, localVars, countVars, histVars >>

qemu_del_vm_change_state_handler ==
    /\ pc \in { "getopt", "main_loop", "wait" }
    /\ ~aborted
    /\ \E i \in DOMAIN vm_change_state_head :
           vm_change_state_head' =
               SubSeq(vm_change_state_head, 1, i - 1)
                   \o SubSeq(vm_change_state_head, i + 1,
                             Len(vm_change_state_head))
    /\ UNCHANGED << last_io, nonblocking, accel, h_registered, h_calls >>
    /\ UNCHANGED cpuVars
    /\ UNCHANGED boardVars
    /\ UNCHANGED << pc, sig_pc, no_shutdown, configVars, runVars, flagVars,
                    vmstopVars, localVars, countVars, histVars >>

\* main() with handlers being registered, and vm_start() called at the
\* launch or by the monitor
NextNotify ==
    \/ runstate_init
    \/ MainDefaults
    \/ OptionS
    \/ qemu_add_vm_change_state_handler
    \/ qemu_del_vm_change_state_handler
    \/ Launch
    \/ MainLoopEnter
    \/ MonitorCont
    \/ \E state \in VmStopTargets : MonitorStop(state)

SpecNotify == Init /\ [][NextNotify]_vars

(***************************************************************************)
(* main_loop() under each accelerator and with each result of              *)
(* main_loop_wait().                                                       *)
(***************************************************************************)
\* if (configure_accelerator(current_machine)) { return 1; }
configure_accelerator ==
    /\ pc = "getopt"
    /\ ~aborted
    /\ accel = "tcg"
    /\ \E a \in { "kvm", "xen", "hax" }, ok \in BOOLEAN :
           IF ok
           THEN accel' = a /\ UNCHANGED << pc, exit_status >>
           ELSE Exit(1) /\ UNCHANGED accel
    /\ UNCHANGED << last_io, nonblocking, vm_change_state_head, h_registered,
                    h_calls >>
    /\ UNCHANGED << optVars, n, phandle, board >>
    /\ UNCHANGED cpuVars
    /\ UNCHANGED << sig_pc, no_shutdown, configVars, runVars, flagVars,
                    vmstopVars, localVars, countVars, histVars >>

NextLoop ==
    \/ runstate_init
    \/ MainDefaults
    \/ configure_accelerator
    \/ Launch
    \/ MainLoopEnter
    \/ \E io \in -1 .. 1 : MainLoopWait(io)
    \/ DebugRead
    \/ DebugClear
    \/ DebugAct
    \/ SuspendRead
    \/ SuspendClear
    \/ SuspendAct
    \/ ShutdownXchg
    \/ ShutdownAct
    \/ ResetRead
    \/ ResetClear
    \/ ResetAct
    \/ WakeupTest
    \/ WakeupNotify
    \/ WakeupClear
    \/ PowerdownRead
    \/ PowerdownClear
    \/ PowerdownAct
    \/ VmstopDrain
    \/ VmstopAct
    \/ Requests

SpecLoop == Init /\ [][NextLoop]_vars

(***************************************************************************)
(* The main loop of a VM that a termination signal kills, started with or  *)
(* without -no-shutdown: the guest asks for a shutdown or a suspend, the   *)
(* VM is asked to stop, and the signal comes on top of these calls, any    *)
(* number of times.  The main thread, whose every step moves pc, the       *)
(* signal handler, and the thread that holds vmstop_lock eventually take   *)
(* the step they can take.                                                 *)
(***************************************************************************)
NextKilled ==
    \/ runstate_init
    \/ MainDefaults
    \/ OptionNoShutdown
    \/ Launch
    \/ MainLoopEnter
    \/ MainLoopWait(0)
    \/ DebugRead
    \/ DebugClear
    \/ SuspendRead
    \/ SuspendClear
    \/ SuspendAct
    \/ ShutdownXchg
    \/ ShutdownAct
    \/ ResetRead
    \/ ResetClear
    \/ WakeupTest
    \/ PowerdownRead
    \/ PowerdownClear
    \/ VmstopDrain
    \/ VmstopAct
    \/ qemu_system_vmstop_request_prepare
    \/ \E state \in VmStopTargets : qemu_system_vmstop_request(state)
    \/ qemu_system_suspend_request(1)
    \/ qemu_system_shutdown_request
    \/ qemu_system_killed(0)
    \/ qemu_system_killed_request

SpecKilled ==
    /\ Init
    /\ [][NextKilled]_vars
    /\ WF_vars(NextKilled /\ pc' # pc)
    /\ WF_vars(qemu_system_killed_request)
    /\ WF_vars(\E state \in VmStopTargets : qemu_system_vmstop_request(state))

(***************************************************************************)
(* The main loop of a guest that suspends itself, any number of times,     *)
(* and that wakeup sources wake.                                           *)
(***************************************************************************)
NextWakeup ==
    \/ runstate_init
    \/ MainDefaults
    \/ Launch
    \/ MainLoopEnter
    \/ MainLoopWait(0)
    \/ DebugRead
    \/ DebugClear
    \/ SuspendRead
    \/ SuspendClear
    \/ SuspendAct
    \/ ShutdownXchg
    \/ ResetRead
    \/ ResetClear
    \/ WakeupTest
    \/ WakeupNotify
    \/ WakeupClear
    \/ PowerdownRead
    \/ PowerdownClear
    \/ VmstopDrain
    \/ qemu_system_suspend_request(0)
    \/ \E reason \in WakeupReason : qemu_system_wakeup_request(reason)

SpecWakeup == Init /\ [][NextWakeup]_vars

(***************************************************************************)
(* Reading the trace of the board.                                         *)
(***************************************************************************)
\* the calls that add the node `node' (for any unit), in call order
NodeAdds(log, node) ==
    { i \in Positions(log, "add_subnode") : log[i].node = node }

\* the calls that set property `name' of the node `node'
PropSets(log, node, name) ==
    { i \in Positions(log, "setprop") :
          log[i].node = node /\ log[i].name = name }

\* the value the last call that set property `name' of `node' gave it
PropValue(log, node, name) ==
    LET sets == PropSets(log, node, name)
    IN  log[CHOOSE i \in sets : \A j \in sets : j <= i].val

\* the position in the finished tree, counted from 1, of the child added by
\* the call at position i among the children added by the calls in S: a new
\* subnode is put in front of the subnodes its parent already has
TreePosition(S, i) == Cardinality({ j \in S : j > i }) + 1

\* ranchu_init() has gone through all its steps and returned
BoardBuilt == Positions(board, "load_kernel") # {}

(***************************************************************************)
(* Claims on the assembly of the board                                     *)
(***************************************************************************)
\* C14: the run state becomes RUNNING, and a vCPU is resumed, only after
\* ranchu_init() has returned and the machine-init-done notifiers and the
\* initial system reset have run, in that order, every change of the
\* device tree having been made before ranchu_init() returned; from then
\* on nothing is added to the board or its device tree.
C14_RunningOnlyAfterBoardFrozen ==
    /\ [](LET mutations == { i \in DOMAIN board :
                                 board[i].ev \in { "add_subnode", "setprop",
                                                   "alloc_phandle" } }
          IN  (runstate_check(RUN_STATE_RUNNING) \/ ~vcpus_paused) =>
                  \E k \in Positions(board, "load_kernel") :
                  \E d \in Positions(board, "machine_init_done") :
                  \E s \in Positions(board, "system_reset") :
                      /\ k < d
                      /\ d < s
                      /\ \A m \in mutations : m < k)
    /\ [][(current_run_state' = RUN_STATE_RUNNING \/ ~vcpus_paused')
              => board' = board]_vars

C14_Witness ==
    /\ runstate_check(RUN_STATE_RUNNING)
    /\ ~vcpus_paused
    /\ pc = "main_loop"
    /\ Positions(board, "system_reset") # {}
    /\ NodeAdds(board, "/virtio_mmio@") # {}

\* C15: board assembly has no partial success: arm_load_kernel() is called
\* only when every earlier step of ranchu_init() completed, which includes
\* the CPU model being a known one, and an execution that ends inside
\* ranchu_init(), after it began to build the board, ends by exit(1)
\* without arm_load_kernel() being called.
C15_NoPartialSuccess ==
    LET StepsCompleted ==
            /\ NodeAdds(board, "/chosen") # {}
            /\ ~SizeGt(ram_size, memmap.RANCHU_MEM.size)
            /\ cpu_model \in KnownCpuModels
            /\ Positions(board, "ram") # {}
            /\ NodeAdds(board, "/intc") # {}
            /\ Cardinality(NodeAdds(board, "/virtio_mmio@"))
                   = NUM_VIRTIO_TRANSPORTS
            /\ Positions(board, "monitor") # {}
        ExitedInRanchuInit ==
            pc = "exit" /\ board # << >> /\ ~BoardBuilt
    IN  /\ BoardBuilt => StepsCompleted
        /\ ExitedInRanchuInit => exit_status = 1

\* C16: ranchu_init() accepts a RAM size equal to the capacity of the RAM
\* slot and goes on to create the device tree; for a greater size, one byte
\* more included, it exits with status 1 and has created nothing.
C16_RamBoundary ==
    /\ [](SizeGt(ram_size, memmap.RANCHU_MEM.size) => board = << >>)
    /\ [][pc = "ranchu_init" =>
            IF SizeGt(ram_size, memmap.RANCHU_MEM.size)
            THEN pc' = "exit" /\ exit_status' = 1 /\ board' = << >>
            ELSE pc' = "create_fdt" /\ exit_status' = NoExit]_vars

C16_Witness ==
    /\ ram_size = memmap.RANCHU_MEM.size
    /\ BoardBuilt

\* C17: a CPU count of 0 is rejected: with smp_cpus = 0 the board never
\* gets as far as wiring the interrupt controller or calling
\* arm_load_kernel().
C17_ZeroCpusRejected ==
    smp_cpus < 1 => (NodeAdds(board, "/intc") = {} /\ ~BoardBuilt)

\* C18: for a CPU count n >= 1 the CPUs are created and realized in index
\* order 0 .. n-1, start-powered-off is set on exactly the CPUs of index
\* > 0, and the CPU nodes are then added one per CPU in the order
\* n-1 .. 0, so that cpu@0 is the last one added and there are n of them.
C18_CpusAscendingNodesDescending ==
    LET Before(S, i) == Cardinality({ j \in S : j < i })
        CpuPropSets(name) ==
            { i \in Positions(board, "cpu_prop") : board[i].name = name }
        news  == Positions(board, "cpu_new")
        reals == CpuPropSets("realized")
        offs  == CpuPropSets("start-powered-off")
        nodes == NodeAdds(board, "/cpus/cpu@")
    IN  smp_cpus >= 1 =>
          /\ \A i \in news : board[i].unit = Before(news, i)
          /\ \A i \in reals : /\ board[i].unit = Before(reals, i)
                              /\ Before(news, i) = board[i].unit + 1
          /\ \A i \in offs : board[i].unit > 0 /\ board[i].val = << TRUE >>
          /\ \A i \in reals :
                 board[i].unit > 0 =>
                     \E p \in offs : p < i /\ board[p].unit = board[i].unit
          /\ \A i \in nodes :
                 /\ board[i].unit = smp_cpus - 1 - Before(nodes, i)
                 /\ \A j \in news \cup reals : j < i
          /\ Positions(board, "ram") # {} =>
                 /\ Cardinality(reals) = smp_cpus
                 /\ Cardinality(nodes) = smp_cpus
                 /\ \E i \in nodes : /\ board[i].unit = 0
                                     /\ \A j \in nodes : j <= i

C18_Witness ==
    /\ smp_cpus >= 2
    /\ BoardBuilt
    /\ Cardinality(NodeAdds(board, "/cpus/cpu@")) = smp_cpus
    /\ Cardinality({ i \in Positions(board, "cpu_prop") :
                         board[i].name = "start-powered-off" })
           = smp_cpus - 1

\* C19 as stated: the 32 virtio-mmio nodes appear in the finished device
\* tree in strictly descending base-address order, and the 32 transports
\* were all created before any of the nodes was added, in strictly
\* ascending base-address order.
C19_VirtioNodesAppearDescending ==
    LET devs  == { i \in Positions(board, "device") :
                       board[i].node = "virtio-mmio" }
        nodes == NodeAdds(board, "/virtio_mmio@")
    IN  BoardBuilt =>
          /\ Cardinality(devs) = NUM_VIRTIO_TRANSPORTS
          /\ Cardinality(nodes) = NUM_VIRTIO_TRANSPORTS
          /\ \A i, j \in devs : i < j => board[i].unit < board[j].unit
          /\ \A i \in devs : \A j \in nodes : i < j
          /\ { board[i].unit : i \in devs } = { board[i].unit : i \in nodes }
          /\ \A i, j \in nodes :
                 TreePosition(nodes, i) < TreePosition(nodes, j)
                     => board[i].unit > board[j].unit

\* C19 as the code has it: the 32 virtio-mmio nodes are added in strictly
\* descending base-address order, so that they appear in the finished
\* device tree lowest address first, and the 32 transports were all
\* created before any of the nodes was added, in strictly ascending
\* base-address order.
C19_VirtioNodesAddedDescending ==
    LET devs  == { i \in Positions(board, "device") :
                       board[i].node = "virtio-mmio" }
        nodes == NodeAdds(board, "/virtio_mmio@")
    IN  BoardBuilt =>
          /\ Cardinality(devs) = NUM_VIRTIO_TRANSPORTS
          /\ Cardinality(nodes) = NUM_VIRTIO_TRANSPORTS
          /\ \A i, j \in devs : i < j => board[i].unit < board[j].unit
          /\ \A i \in devs : \A j \in nodes : i < j
          /\ { board[i].unit : i \in devs } = { board[i].unit : i \in nodes }
          /\ \A i, j \in nodes :
                 /\ i < j => board[i].unit > board[j].unit
                 /\ TreePosition(nodes, i) < TreePosition(nodes, j)
                        => board[i].unit < board[j].unit

C19_Witness ==
    LET nodes == NodeAdds(board, "/virtio_mmio@")
    IN  /\ BoardBuilt
        /\ \E i, j \in nodes :
               /\ TreePosition(nodes, i) = 1
               /\ board[i].unit = VirtioBase(0)
               /\ TreePosition(nodes, j) = NUM_VIRTIO_TRANSPORTS
               /\ board[j].unit = VirtioBase(NUM_VIRTIO_TRANSPORTS - 1)

\* C20: after board assembly the root node's interrupt-parent property is
\* the phandle property of the node /intc, whatever the CPU count and the
\* RAM size.
C20_InterruptParentIsGicPhandle ==
    /\ BoardBuilt => PropSets(board, "/intc", "phandle") # {}
    /\ PropSets(board, "/intc", "phandle") # {} =>
           /\ PropSets(board, "/", "interrupt-parent") # {}
           /\ PropValue(board, "/", "interrupt-parent")
                  = PropValue(board, "/intc", "phandle")

C20_Witness ==
    /\ BoardBuilt
    /\ smp_cpus = 2
    /\ ram_size = memmap.RANCHU_MEM.size
    /\ PropValue(board, "/", "interrupt-parent") = << phandle >>

\* C21: every phandle written into a referencing property (the clocks cells
\* of the UART node, the interrupt-parent of the root) was returned by an
\* earlier allocation and, when the board is built, is the phandle property
\* of exactly one node, which exists; the allocations return increasing
\* values, so the phandle of the clock and that of /intc differ.
C21_PhandlesAllocatedAndOwned ==
    LET allocs == Positions(board, "alloc_phandle")
        refs   == { i \in Positions(board, "setprop") :
                        board[i].name \in { "clocks", "interrupt-parent" } }
        owners(v) == { i \in Positions(board, "setprop") :
                           board[i].name = "phandle" /\ board[i].val[1] = v }
    IN  /\ \A a, b \in allocs : a < b => board[a].val[1] < board[b].val[1]
        /\ \A i \in refs : \A k \in DOMAIN board[i].val :
               /\ \E a \in allocs : a < i /\ board[a].val[1] = board[i].val[k]
               /\ BoardBuilt =>
                      /\ Cardinality(owners(board[i].val[k])) = 1
                      /\ \A o \in owners(board[i].val[k]) :
                             \E m \in NodeAdds(board, board[o].node) : m < o
        /\ BoardBuilt =>
               PropValue(board, "/apb-pclk", "phandle")
                   # PropValue(board, "/intc", "phandle")

C21_Witness ==
    /\ BoardBuilt
    /\ PropValue(board, "pl011", "clocks")
           = << phandle - 1, phandle - 1 >>
    /\ PropValue(board, "/", "interrupt-parent") = << phandle >>

\* C22: ranchu_init() calls arm_load_kernel() exactly once, after the
\* interrupt controller, the six simple devices and the 32 transports have
\* been created and wired; the console/ADB monitor is initialized after
\* all of that wiring and before arm_load_kernel().
C22_LoadKernelOnceAfterWiring ==
    LET loads == Positions(board, "load_kernel")
        mons  == Positions(board, "monitor")
        devs  == Positions(board, "device")
        wired == devs \cup Positions(board, "wire")
        Made(name) == { i \in devs : board[i].node = name }
        AllWiredBefore(i) ==
            /\ \A d \in wired : d < i
            /\ Cardinality(Made("arm_gic")) = 1
            /\ \A name \in { "pl011", "goldfish_fb", "goldfish_battery",
                             "goldfish_audio", "goldfish-events",
                             "android_pipe" } : Cardinality(Made(name)) = 1
            /\ Cardinality(Made("virtio-mmio")) = NUM_VIRTIO_TRANSPORTS
            /\ Cardinality(Positions(board, "wire")) = 3 * smp_cpus
    IN  /\ Cardinality(loads) <= 1
        /\ Cardinality(mons) <= 1
        /\ pc = "init_returned" => Cardinality(loads) = 1
        /\ \A m \in mons : AllWiredBefore(m)
        /\ \A l \in loads : AllWiredBefore(l) /\ \E m \in mons : m < l

C22_Witness ==
    /\ pc = "init_returned"
    /\ smp_cpus = 2
    /\ Cardinality(Positions(board, "load_kernel")) = 1
    /\ Cardinality(Positions(board, "device")) = NUM_VIRTIO_TRANSPORTS + 7

\* C23: with KVM, the /psci node is written from what CPU 0 reports: CPU 0
\* exists when it is asked, and cpu_suspend, cpu_on and migrate are the
\* identifiers of the 64-bit calling convention when CPU 0 reports AArch64,
\* whichever protocol version it reports, and those of the 32-bit
\* convention only when it does not.
C23_Psci64WheneverAArch64 ==
    LET reads == { i \in Positions(board, "get_cpu") :
                       board[i].name = "psci_version" }
        Is(name, id) == PropValue(board, "/psci", name) = << id >>
    IN  \A i \in reads :
            /\ board[i].val[1]
            /\ board[i].val[3] <=> Is("cpu_suspend", "0.2_FN64_CPU_SUSPEND")
            /\ board[i].val[3] <=> Is("cpu_on", "0.2_FN64_CPU_ON")
            /\ board[i].val[3] <=> Is("migrate", "0.2_FN64_MIGRATE")

\* C24 as stated: no two entries of the memmap the board is built on cover
\* overlapping ranges, the entry RANCHU_MMIO standing for its 32
\* consecutive windows.
C24_MemmapDisjoint ==
    LET Slots == DOMAIN memmap \ { "RANCHU_MMIO" }
        End(x) == IF x.base[2] + x.size[2] >= GiB
                  THEN << x.base[1] + x.size[1] + 1,
                          x.base[2] + x.size[2] - GiB >>
                  ELSE << x.base[1] + x.size[1], x.base[2] + x.size[2] >>
        Window(i) == [ base |-> << 0, VirtioBase(i) >>,
                       size |-> memmap.RANCHU_MMIO.size ]
        Ranges == { memmap[d] : d \in Slots }
                      \cup { Window(i) : i \in 0 .. NUM_VIRTIO_TRANSPORTS - 1 }
        Disjoint(x, y) == ~SizeGt(End(x), y.base) \/ ~SizeGt(End(y), x.base)
    IN  BoardBuilt =>
          /\ Cardinality(Ranges) = Cardinality(Slots) + NUM_VIRTIO_TRANSPORTS
          /\ \A x, y \in Ranges : x # y => Disjoint(x, y)

\* C24 as the code has it: the entries of the memmap the board is built on
\* (RANCHU_MMIO standing for its 32 windows) are pairwise disjoint except that
\* RANCHU_CPUPERIPHS is the space in which RANCHU_GIC_DIST and RANCHU_GIC_CPU
\* sit: it contains both, and these two are disjoint from each other.
C24_MemmapDisjointButCpuPeriphs ==
    LET Slots == DOMAIN memmap \ { "RANCHU_MMIO", "RANCHU_CPUPERIPHS" }
        End(x) == IF x.base[2] + x.size[2] >= GiB
                  THEN << x.base[1] + x.size[1] + 1,
                          x.base[2] + x.size[2] - GiB >>
                  ELSE << x.base[1] + x.size[1], x.base[2] + x.size[2] >>
        Window(i) == [ base |-> << 0, VirtioBase(i) >>,
                       size |-> memmap.RANCHU_MMIO.size ]
        Ranges == { memmap[d] : d \in Slots }
                      \cup { Window(i) : i \in 0 .. NUM_VIRTIO_TRANSPORTS - 1 }
        Disjoint(x, y) == ~SizeGt(End(x), y.base) \/ ~SizeGt(End(y), x.base)
        Inside(x, y) == ~SizeGt(y.base, x.base) /\ ~SizeGt(End(x), End(y))
        periphs == memmap.RANCHU_CPUPERIPHS
    IN  BoardBuilt =>
          /\ Cardinality(Ranges) = Cardinality(Slots) + NUM_VIRTIO_TRANSPORTS
          /\ \A x, y \in Ranges : x # y => Disjoint(x, y)
          /\ Inside(memmap.RANCHU_GIC_DIST, periphs)
          /\ Inside(memmap.RANCHU_GIC_CPU, periphs)
          /\ \A x \in Ranges \ { memmap.RANCHU_GIC_DIST, memmap.RANCHU_GIC_CPU } :
                 Disjoint(x, periphs)

\* the board is built on the map: the GIC, a transport in the last window
\* and the RAM are where memmap puts them
C24_Witness ==
    /\ BoardBuilt
    /\ \E i \in Positions(board, "device") :
           /\ board[i].node = "arm_gic"
           /\ board[i].unit = memmap.RANCHU_CPUPERIPHS.base[2]
    /\ \E i \in Positions(board, "device") :
           /\ board[i].node = "virtio-mmio"
           /\ board[i].unit = VirtioBase(NUM_VIRTIO_TRANSPORTS - 1)
    /\ \E i \in Positions(board, "ram") :
           board[i].val[1] = memmap.RANCHU_MEM.base

\* C25: the interrupt lines of the six simple devices are pairwise distinct
\* and none lies in the range of the transports, irqmap[RANCHU_MMIO] ..
\* irqmap[RANCHU_MMIO] + 31; the 32 lines of the transports are pairwise
\* distinct; every line the board uses is an index of pic[], below NUM_IRQS.
C25_IrqLinesDistinctAndInBounds ==
    LET devs   == { i \in Positions(board, "device") :
                        board[i].node # "arm_gic" }
        virt   == { i \in devs : board[i].node = "virtio-mmio" }
        simple == devs \ virt
        Line(i) == board[i].val[1]
        first  == irqmap.RANCHU_MMIO
    IN  /\ \A i, j \in devs : i # j => Line(i) # Line(j)
        /\ \A i \in simple :
               Line(i) \notin first .. first + NUM_VIRTIO_TRANSPORTS - 1
        /\ \A i \in virt :
               Line(i) \in first .. first + NUM_VIRTIO_TRANSPORTS - 1
        /\ \A i \in devs : Line(i) >= 0 /\ Line(i) < NUM_IRQS
        /\ BoardBuilt => /\ Cardinality(simple) = 6
                         /\ Cardinality(virt) = NUM_VIRTIO_TRANSPORTS

C25_Witness ==
    /\ BoardBuilt
    /\ \E i, j \in Positions(board, "device") :
           /\ board[i].node = "android_pipe"
           /\ board[i].val[1] = 6
           /\ board[j].node = "virtio-mmio"
           /\ board[j].val[1] = 47

\* C30: each of the six simple devices and each transport i is created
\* with the base address that is in the reg property of its node and with
\* the interrupt line that is in the interrupts property of its node
\* (transport i: base 0xa000000 + i * 0x200, line 16 + i), and every
\* simple-device node has an interrupts property.
C30_DeviceMatchesNode ==
    LET devs == { i \in Positions(board, "device") :
                      board[i].node # "arm_gic" }
        NodeOf(i) == IF board[i].node = "virtio-mmio"
                     THEN "/virtio_mmio@" ELSE board[i].node
        Props(i, name) ==
            { j \in Positions(board, "setprop") :
                  /\ board[j].node = NodeOf(i)
                  /\ board[j].unit = board[i].unit
                  /\ board[j].name = name }
    IN  BoardBuilt =>
          /\ \A i \in devs :
                 /\ Cardinality(Props(i, "reg")) = 1
                 /\ \A j \in Props(i, "reg") :
                        board[j].val[1] = << 0, board[i].unit >>
                 /\ Cardinality(Props(i, "interrupts")) = 1
                 /\ \A j \in Props(i, "interrupts") :
                        board[j].val[2] = board[i].val[1]
          /\ \A t \in 0 .. NUM_VIRTIO_TRANSPORTS - 1 :
                 \E i \in devs :
                     /\ board[i].node = "virtio-mmio"
                     /\ board[i].unit = 167772160 + t * 512
                     /\ board[i].val[1] = 16 + t

C30_Witness ==
    /\ BoardBuilt
    /\ \E i \in Positions(board, "device") :
       \E j \in Positions(board, "setprop") :
           /\ board[i].node = "goldfish_fb"
           /\ board[j].node = "goldfish_fb"
           /\ board[j].name = "interrupts"
           /\ board[j].val[2] = board[i].val[1]
    /\ PropSets(board, "/virtio_mmio@", "interrupts") # {}

C28_VmStartWhileRunning ==
    [][ (MonitorCont /\ current_run_state = RUN_STATE_RUNNING)
            => IF vmstop_requested # RUN_STATE_MAX
               THEN /\ vmstop_requested' = RUN_STATE_MAX
                    /\ h_vmreqs' = << >>
                    /\ h_events' = << "STOP", "RESUME" >>
                    /\ current_run_state' = RUN_STATE_RUNNING
                    /\ ~aborted'
               ELSE /\ h_events' = << >>
                    /\ UNCHANGED << runVars, flagVars, vmstopVars,
                                    vcpus_paused, h_unpaused >> ]_vars

C28_Witness ==
    /\ h_events = << "STOP", "RESUME" >>
    /\ current_run_state = RUN_STATE_RUNNING
    /\ vmstop_requested = RUN_STATE_MAX
    /\ pc = "vmstop_drain"

(***************************************************************************)
(* C26: vm_state_notify() calls the registered vm-state-change handlers in *)
(* the order in which qemu_add_vm_change_state_handler() registered them,  *)
(* each entry of the list exactly once (so a callback registered twice is  *)
(* called twice).                                                          *)
(***************************************************************************)
C26_NotifyInRegistrationOrder ==
    LET called == [ i \in DOMAIN h_calls.calls |-> h_calls.calls[i].e ]
        InList(e) == \E i \in DOMAIN h_calls.list : h_calls.list[i] = e
    IN  called = SelectSeq(h_registered, InList)

(***************************************************************************)
(* C27: every turn of the loop of main_loop() makes one call of            *)
(* main_loop_wait() and only then evaluates the request flags, so flags    *)
(* pending when main_loop() is entered are acted on after the first wait;  *)
(* the wait is non-blocking only when neither KVM, Xen nor HAX is enabled  *)
(* and the previous wait returned a positive count, so the first wait is   *)
(* blocking and under an accelerator every wait is.                        *)
(***************************************************************************)
C27_OneWaitThenFlags ==
    /\ [][ /\ (pc' = "debug_read" /\ pc # "debug_read")
               => (pc = "wait" /\ npass' = npass + 1)
           /\ npass' # npass
               => (pc = "wait" /\ pc' = "debug_read" /\ npass' = npass + 1)
           /\ pc \in { "main_loop", "wait" }
               => /\ h_log' = h_log \/ h_log' = << >>
                  /\ \A f \in FlagNames \ { "vmstop" } :
                         Pending(f) => Pending(f)'
           /\ npass' # npass
               => /\ nonblocking'
                      = (accel \notin { "kvm", "xen", "hax" } /\ last_io > 0)
                  /\ (npass = 0 => ~nonblocking') ]_vars
    /\ [](nonblocking => (accel = "tcg" /\ npass >= 2))

C27_Witness ==
    /\ nonblocking
    /\ npass = 2
    /\ last_io = -1
    /\ pc = "shutdown_xchg"
    /\ h_start.pending # {}

(***************************************************************************)
(* C31: when the main loop has handled a reset request,                    *)
(* runstate_needs_reset() is false: from RUN_STATE_INTERNAL_ERROR or       *)
(* RUN_STATE_SHUTDOWN (also a SHUTDOWN the shutdown request of the same    *)
(* pass has led to under -no-shutdown) the run state becomes               *)
(* RUN_STATE_PAUSED, from every other run state it stays what it was, and  *)
(* the handling never aborts.                                              *)
(***************************************************************************)
C31_ResetLeavesNoNeedOfReset ==
    [][ pc = "reset_act"
            => /\ ~aborted'
               /\ pc' # pc
                      => /\ ~runstate_needs_reset'
                         /\ current_run_state'
                                = IF runstate_needs_reset
                                  THEN RUN_STATE_PAUSED
                                  ELSE current_run_state ]_vars

C31_Witness ==
    /\ pc = "wakeup_test"
    /\ Len(h_log) >= 2
    /\ \E i \in DOMAIN h_log :
           /\ h_log[i] = LogAct("shutdown", RUN_STATE_SHUTDOWN, "stop")
           /\ h_log[Len(h_log)] = LogAct("reset", RUN_STATE_PAUSED, "-")
           /\ i < Len(h_log)
    /\ current_run_state = RUN_STATE_PAUSED

(***************************************************************************)
(* C32: once qemu_system_killed() has been called, the main loop           *)
(* eventually returns, also when -no-shutdown was given: the call clears   *)
(* no_shutdown before it sets shutdown_requested, and a shutdown request   *)
(* handled with no_shutdown clear takes the exit path (or the loop has     *)
(* used up the passes of this model).                                      *)
(***************************************************************************)
C32_KilledLoopReturns ==
    /\ (sig_pc = "killed")
           ~> \/ pc \in { "exited", "hax_failed" }
              \/ pc = "wait" /\ npass = MaxPasses
    /\ [](sig_pc = "killed" => no_shutdown = 0)
    /\ [][ (pc = "shutdown_act" /\ pc' # pc /\ no_shutdown = 0)
               => pc' = "exited" ]_vars

(***************************************************************************)
(* C33: with no_reboot set, qemu_system_reset_request() sets               *)
(* shutdown_requested and leaves reset_requested alone, so reset_requested *)
(* is never set, the main loop never runs its reset handler, and the       *)
(* request is handled as a shutdown, which ends the loop unless            *)
(* no_shutdown is set; with no_reboot clear the function sets              *)
(* reset_requested and leaves shutdown_requested alone.                    *)
(***************************************************************************)
C33_NoRebootTurnsResetIntoShutdown ==
    /\ [][ qemu_system_reset_request
               => IF no_reboot # 0
                  THEN /\ shutdown_requested' = 1
                       /\ reset_requested' = reset_requested
                  ELSE /\ reset_requested' = 1
                       /\ shutdown_requested' = shutdown_requested ]_vars
    /\ [][ (pc = "shutdown_act" /\ pc' # pc)
               => (pc' = "exited") = (no_shutdown = 0) ]_vars
    /\ [](no_reboot # 0
              => /\ reset_requested = 0
                 /\ pc # "reset_act"
                 /\ \A i \in DOMAIN h_log :
                        ~(h_log[i].k = "act" /\ h_log[i].f = "reset"))

C33_Witness ==
    /\ no_reboot # 0
    /\ nops = 1
    /\ pc = "exited"
    /\ h_shutdownRequested
    /\ sig_pc = "idle"
    /\ no_shutdown = 0
    /\ h_start.no_shutdown = 0

(***************************************************************************)
(* C35: whenever the main loop fires the wakeup notifiers and sends the    *)
(* WAKEUP event, the run state is RUN_STATE_RUNNING; in particular it is   *)
(* not RUN_STATE_SUSPENDED.                                                *)
(***************************************************************************)
C35_WakeupReportedWhileRunning ==
    pc \in { "wakeup_notify", "wakeup_clear" }
        => current_run_state = RUN_STATE_RUNNING

(***************************************************************************)
(* C34: a qemu_system_wakeup_request(reason) made while the run state is   *)
(* RUN_STATE_SUSPENDED with the reason enabled in wakeup_reason_mask sets  *)
(* the run state to RUNNING and wakeup_reason to the reason, and the       *)
(* reason stays until the main loop has fired the wakeup notifiers with    *)
(* it, once, and then sets wakeup_reason to NONE; a request made in        *)
(* another run state or with a disabled reason changes neither the run     *)
(* state nor wakeup_reason.                                                *)
(***************************************************************************)
C34_AcceptedWakeupFiresOnce ==
    [][ /\ \A reason \in WakeupReason :
               qemu_system_wakeup_request(reason)
                   => IF current_run_state = RUN_STATE_SUSPENDED
                         /\ reason \in wakeup_reason_mask
                      THEN /\ current_run_state' = RUN_STATE_RUNNING
                           /\ wakeup_reason' = reason
                      ELSE UNCHANGED << current_run_state, wakeup_reason >>
        /\ (wakeup_reason # QEMU_WAKEUP_REASON_NONE
                /\ wakeup_reason' # wakeup_reason)
               => /\ pc = "wakeup_clear"
                  /\ wakeup_reason' = QEMU_WAKEUP_REASON_NONE
                  /\ h_log # << >>
                  /\ h_log[Len(h_log)].k = "act"
                  /\ h_log[Len(h_log)].f = "wakeup"
                  /\ h_log[Len(h_log)].arg = wakeup_reason ]_vars

(***************************************************************************)
(* C36: the run states from which the table lists no transition to         *)
(* RUN_STATE_RUNNING are exactly RUN_STATE_INTERNAL_ERROR and              *)
(* RUN_STATE_SHUTDOWN.                                                     *)
(***************************************************************************)
C36_NoWayToRunningIsNeedsReset ==
    pc # "start"
        => { s \in RunState :
               ~runstate_valid_transitions[s][RUN_STATE_RUNNING] }
             = { RUN_STATE_INTERNAL_ERROR, RUN_STATE_SHUTDOWN }

(***************************************************************************)
(* C36, amended: the run states other than RUN_STATE_RUNNING from which    *)
(* the table lists no transition to RUN_STATE_RUNNING are exactly          *)
(* RUN_STATE_INTERNAL_ERROR and RUN_STATE_SHUTDOWN, the states for which   *)
(* runstate_needs_reset() is true (RUNNING has no transition to itself     *)
(* either); so vm_start() ends in RUNNING from every other non-running     *)
(* state, aborts in these two, and leaves a running machine running.       *)
(***************************************************************************)
C36_NoWayToRunningFromNeedsReset ==
    /\ [](pc # "start"
            => /\ { s \in RunState \ { RUN_STATE_RUNNING } :
                      ~runstate_valid_transitions[s][RUN_STATE_RUNNING] }
                    = { RUN_STATE_INTERNAL_ERROR, RUN_STATE_SHUTDOWN }
               /\ ~runstate_valid_transitions[RUN_STATE_RUNNING]
                                             [RUN_STATE_RUNNING]
               /\ runstate_needs_reset
                    = (~runstate_is_running
                         /\ ~runstate_valid_transitions[current_run_state]
                                                       [RUN_STATE_RUNNING]))
    /\ [][ (Launch /\ ~incoming /\ autostart # 0)
               => IF runstate_needs_reset
                  THEN aborted' /\ current_run_state' = current_run_state
                  ELSE ~aborted' /\ current_run_state' = RUN_STATE_RUNNING
         ]_vars

C36_Witness ==
    /\ pc = "main_loop"
    /\ current_run_state = RUN_STATE_RUNNING
    /\ h_lastSet = [ from |-> RUN_STATE_WATCHDOG, to |-> RUN_STATE_RUNNING,
                     returned |-> TRUE ]
    /\ h_events = << "RESUME" >>

(***************************************************************************)
(* C37: the table has no self-transition, so runstate_set(s) called while  *)
(* the run state is s aborts, as the second -incoming does                 *)
(* (RUN_STATE_INMIGRATE while already INMIGRATE); and every runstate_set() *)
(* called before runstate_init() would abort: until runstate_init() has    *)
(* run, the test of runstate_set() fails for every state.                  *)
(***************************************************************************)
C37_NoSelfTransition ==
    /\ [](\A s \in RunState : ~runstate_valid_transitions[s][s])
    /\ [](pc = "start" => \A s \in RunStateOrMax : ~TransitionAllowed(s))
    /\ [](\A i \in DOMAIN runstate_transitions_def :
              runstate_transitions_def[i][1] # runstate_transitions_def[i][2]
                  \/ runstate_transitions_def[i][1] = RUN_STATE_MAX)
    /\ [][ /\ \A s \in RunStateOrMax :
                  (CallRunstateSet(s) /\ s = current_run_state)
                      => (aborted' /\ current_run_state' = current_run_state)
           /\ (OptionIncoming /\ current_run_state = RUN_STATE_INMIGRATE)
                  => (aborted' /\ current_run_state' = current_run_state) ]_vars

C37_Witness ==
    /\ aborted
    /\ incoming
    /\ pc = "getopt"
    /\ h_lastSet = [ from |-> RUN_STATE_INMIGRATE, to |-> RUN_STATE_INMIGRATE,
                     returned |-> FALSE ]

(***************************************************************************)
(* C38: in the graph of the run-state transitions that runstate_init()     *)
(* installs, every run state named in the table is reachable from          *)
(* RUN_STATE_PRELAUNCH, RUN_STATE_RUNNING is reachable from every such     *)
(* state, no transition leads into RUN_STATE_PRELAUNCH, and                *)
(* RUN_STATE_INMIGRATE is entered from RUN_STATE_PRELAUNCH only; the run   *)
(* state of the process moves accordingly.                                 *)
(***************************************************************************)
C38_TransitionGraphIsConnected ==
    /\ [](pc # "start" =>
            LET InTable == { s \in RunState :
                               \E i \in DOMAIN runstate_transitions_def :
                                   \/ runstate_transitions_def[i][1] = s
                                   \/ runstate_transitions_def[i][2] = s }
                Succ(S) == S \cup { t \in RunState :
                               \E f \in S : runstate_valid_transitions[f][t] }
                Reach[k \in 0 .. Cardinality(RunState)] ==
                    [ s \in RunState |->
                        IF k = 0 THEN { s } ELSE Succ(Reach[k - 1][s]) ]
                ReachableFrom(s) == Reach[Cardinality(RunState)][s]
            IN  /\ InTable \subseteq ReachableFrom(RUN_STATE_PRELAUNCH)
                /\ \A s \in InTable : RUN_STATE_RUNNING \in ReachableFrom(s)
                /\ \A s \in InTable :
                       \E t \in RunState : runstate_valid_transitions[s][t]
                /\ \A f \in RunState :
                       ~runstate_valid_transitions[f][RUN_STATE_PRELAUNCH]
                /\ \A f \in RunState :
                       runstate_valid_transitions[f][RUN_STATE_INMIGRATE]
                           => f = RUN_STATE_PRELAUNCH)
    /\ [][ /\ current_run_state' # current_run_state
               => current_run_state' # RUN_STATE_PRELAUNCH
           /\ (current_run_state' # current_run_state
                  /\ current_run_state' = RUN_STATE_INMIGRATE)
               => current_run_state = RUN_STATE_PRELAUNCH ]_vars

C38_Witness ==
    /\ ~aborted
    /\ pc # "start"
    /\ current_run_state = RUN_STATE_PAUSED
    /\ h_lastSet = [ from |-> RUN_STATE_SHUTDOWN, to |-> RUN_STATE_PAUSED,
                     returned |-> TRUE ]

(***************************************************************************)
(* C39: every CPU object the board code queries while it writes the        *)
(* device tree (CPU 0 for its PSCI version and AArch64 feature in          *)
(* create_fdt() with KVM, each CPU for its dtb_compatible string in        *)
(* fdt_add_cpu_nodes()) has been created and realized by ranchu_init()     *)
(* before it is queried.                                                   *)
(***************************************************************************)
C39_QueriedCpusAreRealized ==
    /\ pc # "crashed"
    /\ \A i \in Positions(board, "get_cpu") :
           board[i].name \in { "psci_version", "dtb_compatible" }
               => /\ board[i].val[1]
                  /\ \E j \in 1 .. i - 1 :
                         /\ board[j].ev = "cpu_prop"
                         /\ board[j].name = "realized"
                         /\ board[j].unit = board[i].unit

(***************************************************************************)
(* C40: whenever main() calls the init function of the ranchu machine,     *)
(* smp_cpus is 1: smp_parse() leaves smp_cpus >= 1 or fails, whatever the  *)
(* -smp option says, and main() does not call init with smp_cpus above     *)
(* the max_cpus of the machine, which is 1.                                *)
(***************************************************************************)
C40_InitCalledWithOneCpu ==
    /\ pc = "max_cpus_check" => smp_cpus >= 1
    /\ pc = "ranchu_init" => smp_cpus = 1

====
